---- MODULE Spec2Model ----
(***************************************************************************)
(* A model of the crawl engine of ue2-docs: the priority Queue (frontier)  *)
(* and the Tracker (visited ledger) of internal/scraper, the retrying,     *)
(* rate-limited Fetcher of internal/fetcher, urlutil.Normalize, and the    *)
(* worker pool that the specification puts on top of them.                 *)
(*                                                                         *)
(* The specifications share the module's variables:                        *)
(*   SpecQueue      threads calling Queue.Add / Queue.Pop under the mutex, *)
(*   SpecHeap       one caller driving the heap with more items,           *)
(*   SpecWeights    one caller driving the heap with an item of each       *)
(*                  resource type,                                         *)
(*   SpecFetch      one Fetcher.Fetch call against a server, a limiter and *)
(*                  a cancellation signal (SpecFetchFair with fairness),   *)
(*   SpecRedirect   one Fetch call against a redirecting server,           *)
(*   SpecBackoff    calls of calculateBackoff,                             *)
(*   SpecTracker    threads calling Tracker.MarkVisited,                   *)
(*   SpecCrawl      a crawl run of the worker pool (SpecCrawlFair with     *)
(*                  fairness),                                             *)
(*   SpecNormalize  Normalize applied to an input and to its own result,   *)
(*   SpecFilter     a Filter built from a root URL and a whitelist, asked  *)
(*                  about a URL,                                           *)
(*   SpecDetect     the DetectResourceType of urlutil, GetResourceType and *)
(*                  the DetectResourceType of fetcher applied to a URL and *)
(*                  a content type,                                        *)
(*   SpecLimiter    a SimpleRateLimiter, its ticker and goroutine, callers *)
(*                  of Wait and a call of Stop (SpecLimiterFair with       *)
(*                  fairness).                                             *)
(***************************************************************************)
EXTENDS Integers, Sequences, FiniteSets, TLC

(***************************************************************************)
(* Bounds of the model.                                                    *)
(***************************************************************************)
NThreads == 2
MaxURL == 2
MaxHeapURL == 6
MaxRetriesCap == 2
MaxBurst == 1
MaxAttempt == 32
MaxMarks == 3
MaxPage == 3
MaxHops == 11
MaxPathLen == 3
MaxTypedURL == 7
MaxRequests == 2

Threads == 1..NThreads
URLs == 1..MaxURL
HeapURLs == 1..MaxHeapURL

(***************************************************************************)
(* urlutil.ResourceType and its scheduling weight.                         *)
(***************************************************************************)
ResourceTypes == {"Unknown", "HTML", "CSS", "JS", "Image", "Font", "Other"}

GetWeightScriptsFirst(rt) ==
  CASE rt = "HTML" -> 100
    [] rt = "CSS" -> 50
    [] rt = "JS" -> 75
    [] rt = "Image" -> 25
    [] rt = "Font" -> 20
    [] rt = "Other" -> 10
    [] rt = "Unknown" -> 5
    [] OTHER -> 0
GetWeight(rt) ==
  CASE rt = "HTML" -> 100
    [] rt = "CSS" -> 75
    [] rt = "JS" -> 50
    [] rt = "Image" -> 25
    [] rt = "Font" -> 20
    [] rt = "Other" -> 10
    [] rt = "Unknown" -> 5
    [] OTHER -> 0

\* The resource types the callers of SpecQueue pass to Add.
QueueTypes == {"HTML", "Image"}

\* The resource type the caller of SpecHeap passes for each URL: the five
\* types of TestQueue_PriorityOrdering in its insertion order, then again.
HeapTypeSeq == <<"Image", "HTML", "JS", "CSS", "Other", "HTML", "Font", "Unknown">>
HeapTypeOf(u) == HeapTypeSeq[((u - 1) % Len(HeapTypeSeq)) + 1]

\* The resource type the caller of SpecWeights passes for each URL: every
\* type of the enumeration (filter.go:13-21) once, then again.
AllTypeSeq == <<"Unknown", "HTML", "CSS", "JS", "Image", "Font", "Other">>
TypedURLs == 1..MaxTypedURL
TypeOfURL(u) == AllTypeSeq[((u - 1) % Len(AllTypeSeq)) + 1]

(***************************************************************************)
(* QueueItem and priorityQueue (heap.Interface), indices from 0 as in Go.  *)
(***************************************************************************)
QueueItem(url, rt) == [URL |-> url, Type |-> rt]

Weight(qi) == GetWeight(qi.Type)

LessMin(h, i, j) == Weight(h[i + 1]) < Weight(h[j + 1])
Less(h, i, j) == Weight(h[i + 1]) > Weight(h[j + 1])

Swap(h, i, j) == [h EXCEPT ![i + 1] = h[j + 1], ![j + 1] = h[i + 1]]

\* container/heap.up: (j - 1) / 2 truncates toward zero, so the root is its
\* own parent.
RECURSIVE up(_, _)
up(h, j) ==
  LET i == IF j = 0 THEN 0 ELSE (j - 1) \div 2
  IN IF i = j \/ ~Less(h, j, i) THEN h ELSE up(Swap(h, i, j), i)

\* container/heap.down on the first n elements.
RECURSIVE down(_, _, _)
down(h, i, n) ==
  LET j1 == 2 * i + 1
  IN IF j1 >= n
       THEN h
       ELSE LET j2 == j1 + 1
                j == IF j2 < n /\ Less(h, j2, j1) THEN j2 ELSE j1
            IN IF ~Less(h, j, i) THEN h ELSE down(Swap(h, i, j), j, n)

\* heap.Push: priorityQueue.Push appends, then up from the last index.
heapPushLost(h, x) == h
heapPush(h, x) == up(Append(h, x), Len(h))

\* heap.Pop: swap first and last, down over the first n, then
\* priorityQueue.Pop takes off the last element.
heapPopped(h) ==
  LET n == Len(h) - 1
  IN down(Swap(h, 0, n), 0, n)
heapPopItem(h) == heapPopped(h)[Len(h)]
heapPopRestKeeps(h) == heapPopped(h)
heapPopRest(h) == SubSeq(heapPopped(h), 1, Len(h) - 1)

(***************************************************************************)
(* State.                                                                  *)
(***************************************************************************)
VARIABLES
  pq,        \* Queue.pq: the heap array
  seen,      \* Queue.seen: the admission set
  mu,        \* Queue.mu: 0 when free, else the thread holding it
  th,        \* per thread: where it is in Add or Pop, its arguments and result
  everAdded, \* history: the URLs passed to an Add that has reached its check
  admitted,  \* history: per queued URL, the type given to the Add that admitted it
  addTrue,   \* history: per URL, the number of Adds that returned true
  popCount,  \* history: per URL, the number of Pops that returned it
  drain,     \* history: the weights popped since the last Add
  config,    \* Fetcher.config: MaxRetries, RateLimiter (set or nil), and the url given
  pc,        \* where the Fetch call is
  attempt,   \* Fetch's loop variable
  lastErr,   \* Fetch's lastErr
  ctxDone,   \* the cancellation signal: ctx.Done() is closed, ctx.Err() is not nil
  tokens,    \* SimpleRateLimiter.tokens: the tokens in the bucket
  outcome,   \* what doFetch returned for the current attempt
  result,    \* what Fetch returned
  requests,  \* history: the requests the server received
  acquired,  \* history: the tokens Fetch took from the limiter
  sleeps,    \* history: the backoff sleeps Fetch began
  trace,     \* history: the sleeps (with their delays), token waits and requests of Fetch, in order
  hist,      \* history: the outcome of every attempt, in order
  waitErr,   \* history: the error the limiter's Wait returned, if it failed
  cancelAt,  \* history: where Fetch was when the signal was raised
  reqAtCancel, \* history: the requests received when the signal was raised
  backoff,   \* a call of calculateBackoff: the delays configured, its argument, its result
  visited,   \* Tracker.visited: URL -> status code
  count,     \* Tracker.count
  tth,       \* per thread: where it is in MarkVisited, and its arguments
  marklog,   \* history: the <<url, status>> of every Swap, in order
  called,    \* history: the URLs MarkVisited was called with
  run,       \* the crawl run: "new", "running" or "returned"
  cancelled, \* the crawl run's cancellation signal
  wk,        \* per worker: where it is in its loop and the item it holds
  inflight,  \* the in-flight counter
  fetchlog,  \* history: the URLs fetches were started for, in order
  discovered, \* history: the root and the in-scope URLs found on fetched pages
  failed,    \* history: the URLs whose fetch failed and was recorded
  hops,      \* the server: the redirects it answers with before the final response
  followed,  \* client.Do: the redirects followed in the current attempt
  norm,      \* calls of Normalize: the arguments, the result, the result of normalizing it again
  filt,      \* a Filter: the arguments of NewFilter, the Filter, the argument and result of IsAllowed
  det,       \* a call of DetectResourceType: the arguments and the result
  rl,        \* a SimpleRateLimiter: its bucket, its ticker and its goroutine
  wt         \* per caller: where it is in SimpleRateLimiter.Wait, its ctx and its result

qvars == <<pq, seen, mu, th, everAdded, admitted, addTrue, popCount, drain>>

fvars == <<config, pc, attempt, lastErr, ctxDone, tokens, outcome, result,
           requests, acquired, sleeps, trace, hist, waitErr, cancelAt, reqAtCancel>>

bvars == <<backoff>>

tvars == <<visited, count, tth, marklog, called>>

cvars == <<run, cancelled, wk, inflight, fetchlog, discovered, failed>>

rvars == <<hops, followed>>

nvars == <<norm>>

uvars == <<filt, det>>

lvars == <<rl, wt>>

xvars == <<bvars, tvars, cvars, rvars, nvars, uvars, lvars>>

vars == <<qvars, fvars, xvars>>

NoType == "none"
Idle == [pc |-> "idle"]

\* NewQueue, and no call begun.
NewQueue ==
  /\ pq = <<>>
  /\ seen = {}
  /\ mu = 0
  /\ th = [t \in Threads |-> Idle]
  /\ everAdded = {}
  /\ admitted = <<>>
  /\ addTrue = <<>>
  /\ popCount = <<>>
  /\ drain = <<>>

\* Functions with a growing domain, for the histories.
At(f, u, default) == IF u \in DOMAIN f THEN f[u] ELSE default
Put(f, u, v) == [x \in DOMAIN f \cup {u} |-> IF x = u THEN v ELSE f[x]]
Drop(f, u) == [x \in DOMAIN f \ {u} |-> f[x]]
RECURSIVE Total(_)
Total(f) ==
  IF DOMAIN f = {} THEN 0
  ELSE LET u == CHOOSE x \in DOMAIN f : TRUE IN f[u] + Total(Drop(f, u))

(***************************************************************************)
(* sync.Mutex: Lock waits until the mutex is free; the deferred Unlock     *)
(* runs when the method returns.                                           *)
(***************************************************************************)
MuLockNoWait(t) == mu' = t
MuLock(t) == mu = 0 /\ mu' = t

MuUnlock == mu' = 0

(***************************************************************************)
(* Queue.Add(url, resourceType), one step per statement that another       *)
(* thread could observe.                                                   *)
(***************************************************************************)
\* A caller enters Add.
CallAdd(t, u, rt) ==
  /\ th[t].pc = "idle"
  /\ th' = [th EXCEPT ![t] = [pc |-> "add_lock", url |-> u, type |-> rt]]
  /\ UNCHANGED <<pq, seen, mu, everAdded, admitted, addTrue, popCount, drain, fvars, xvars>>

\* q.mu.Lock()
AddLock(t) ==
  /\ th[t].pc = "add_lock"
  /\ MuLock(t)
  /\ th' = [th EXCEPT ![t] = [pc |-> "add_check", url |-> th[t].url,
                               type |-> th[t].type, len0 |-> Len(pq)]]
  /\ UNCHANGED <<pq, seen, everAdded, admitted, addTrue, popCount, drain, fvars, xvars>>

\* if q.seen[url] { return false }
\* prior: url was passed to an Add that came to this point before.
\* delta: the change of the queue's length over the critical section.
AddCheck(t) ==
  /\ th[t].pc = "add_check"
  /\ everAdded' = everAdded \cup {th[t].url}
  /\ IF th[t].url \in seen
       THEN /\ th' = [th EXCEPT ![t] = [pc |-> "add_ret", url |-> th[t].url,
                                         type |-> th[t].type,
                                         ret |-> FALSE,
                                         prior |-> th[t].url \in everAdded,
                                         delta |-> Len(pq) - th[t].len0]]
            /\ MuUnlock
       ELSE /\ th' = [th EXCEPT ![t] = [pc |-> "add_push", url |-> th[t].url,
                                         type |-> th[t].type, len0 |-> th[t].len0,
                                         prior |-> th[t].url \in everAdded]]
            /\ UNCHANGED mu
  /\ UNCHANGED <<pq, seen, admitted, addTrue, popCount, drain, fvars, xvars>>

\* q.seen[url] = true; heap.Push(&q.pq, item); return true
AddPush(t) ==
  /\ th[t].pc = "add_push"
  /\ seen' = seen \cup {th[t].url}
  /\ pq' = heapPush(pq, QueueItem(th[t].url, th[t].type))
  /\ MuUnlock
  /\ th' = [th EXCEPT ![t] = [pc |-> "add_ret", url |-> th[t].url,
                               type |-> th[t].type,
                               ret |-> TRUE,
                               prior |-> th[t].prior,
                               delta |-> Len(pq') - th[t].len0]]
  /\ admitted' = Put(admitted, th[t].url, th[t].type)
  /\ addTrue' = Put(addTrue, th[t].url, At(addTrue, th[t].url, 0) + 1)
  /\ drain' = <<>>
  /\ UNCHANGED <<everAdded, popCount, fvars, xvars>>

\* The caller has the result and goes on.
AddReturn(t) ==
  /\ th[t].pc = "add_ret"
  /\ th' = [th EXCEPT ![t] = Idle]
  /\ UNCHANGED <<pq, seen, mu, everAdded, admitted, addTrue, popCount, drain, fvars, xvars>>

(***************************************************************************)
(* Queue.Pop().                                                            *)
(***************************************************************************)
CallPop(t) ==
  /\ th[t].pc = "idle"
  /\ th' = [th EXCEPT ![t] = [pc |-> "pop_lock"]]
  /\ UNCHANGED <<pq, seen, mu, everAdded, admitted, addTrue, popCount, drain, fvars, xvars>>

\* q.mu.Lock()
PopLock(t) ==
  /\ th[t].pc = "pop_lock"
  /\ MuLock(t)
  /\ th' = [th EXCEPT ![t] = [pc |-> "pop_body"]]
  /\ UNCHANGED <<pq, seen, everAdded, admitted, addTrue, popCount, drain, fvars, xvars>>

\* The admission set after a Pop of item: Pop does not touch q.seen.
SeenAfterPopForgets(item) == seen \ {item.URL}
SeenAfterPop(item) == seen

\* if q.pq.Len() == 0 { return nil, false }; item := heap.Pop(&q.pq); return item, true
\* given: the type the admitting Add was given for the popped URL.
PopBody(t) ==
  /\ th[t].pc = "pop_body"
  /\ MuUnlock
  /\ IF Len(pq) = 0
       THEN /\ th' = [th EXCEPT ![t] = [pc |-> "pop_ret", ok |-> FALSE]]
            /\ UNCHANGED <<pq, seen, admitted, popCount, drain>>
       ELSE LET item == heapPopItem(pq)
            IN /\ pq' = heapPopRest(pq)
               /\ seen' = SeenAfterPop(item)
               /\ th' = [th EXCEPT ![t] = [pc |-> "pop_ret", ok |-> TRUE,
                                            item |-> item,
                                            given |-> At(admitted, item.URL, NoType)]]
               /\ admitted' = Drop(admitted, item.URL)
               /\ popCount' = Put(popCount, item.URL, At(popCount, item.URL, 0) + 1)
               /\ drain' = Append(drain, Weight(item))
  /\ UNCHANGED <<everAdded, addTrue, fvars, xvars>>

PopReturn(t) ==
  /\ th[t].pc = "pop_ret"
  /\ th' = [th EXCEPT ![t] = Idle]
  /\ UNCHANGED <<pq, seen, mu, everAdded, admitted, addTrue, popCount, drain, fvars, xvars>>

(***************************************************************************)
(* Fetcher.calculateBackoff(attempt). A time.Duration is an int64 count of *)
(* nanoseconds; the model counts durations in units of 2^33 ns, so that    *)
(* the int64 range is MinInt64..MaxInt64 below and doubling is exact.      *)
(***************************************************************************)
MaxInt64 == 1073741823
MinInt64 == -MaxInt64 - 1

InitialDelays == {0, 1, 3}
MaxDelays == {1, 30, 100}

\* float64(d) * math.Pow(2, n): exact, and held at MaxInt64 + 1 once it is
\* past the int64 range.
RECURSIVE Times2Pow(_, _)
Times2Pow(d, n) ==
  IF n = 0 \/ d > MaxInt64 THEN d ELSE Times2Pow(2 * d, n - 1)

\* time.Duration(delay): the value when int64 holds it; otherwise what the
\* build's conversion gives, the smallest int64 (amd64) or the largest
\* (arm64).
ToDurationSaturates(delay) == IF delay > MaxInt64 THEN {MaxInt64} ELSE {delay}
ToDuration(delay) == IF delay > MaxInt64 THEN {MinInt64, MaxInt64} ELSE {delay}

\* The delays calculateBackoff(attempt) can return.
calculateBackoff(initialDelay, maxDelay, n) ==
  LET delay == Times2Pow(initialDelay, n - 1)
  IN  { IF delayDuration > maxDelay THEN maxDelay ELSE delayDuration :
          delayDuration \in ToDuration(delay) }

(***************************************************************************)
(* The Fetcher: what one attempt can come to, and the errors Fetch wraps.  *)
(***************************************************************************)
NilResp == [nil |-> TRUE]
NoErr == [kind |-> "nil"]
\* ctx.Err() once the signal is raised.
Canceled == [kind |-> "context canceled"]

\* What the server, or the network, makes of a request that was sent:
\*   ok         a 2xx response, its body read
\*   http       a response with another status
\*   body       a response whose body could not be read
\*   transport  client.Do failed (no response: network, timeout, redirects)
ServerOutcomes ==
  {[kind |-> "ok", status |-> 200]}
    \cup {[kind |-> "http", status |-> c] : c \in {304, 404, 500, 503}}
    \cup {[kind |-> "body", status |-> c] : c \in {200, 404}}
    \cup {[kind |-> "transport", status |-> 0]}
\* client.Do failed because the context is done; http.NewRequestWithContext failed.
CtxOutcome == [kind |-> "ctx", status |-> 0]
NewRequestOutcome == [kind |-> "newreq", status |-> 0]
\* client.Do failed because CheckRedirect refused the next redirect.
RedirectOutcome == [kind |-> "redirects", status |-> 0]

\* doFetch's two results for an outcome.
RespOf(o) ==
  IF o.kind \in {"ok", "http", "body"}
    THEN [nil |-> FALSE, StatusCode |-> o.status, Body |-> o.kind = "ok"]
    ELSE NilResp
ErrOfAnyStatus(o) ==
  CASE o.kind \in {"ok", "http"} -> NoErr
    [] o.kind = "body" -> [kind |-> "reading response body"]
    [] OTHER -> [kind |-> "executing request"]
ErrOf(o) ==
  CASE o.kind = "ok" -> NoErr
    [] o.kind = "http" -> [kind |-> "HTTP", status |-> o.status]
    [] o.kind = "body" -> [kind |-> "reading response body"]
    [] o.kind = "transport" -> [kind |-> "executing request"]
    [] o.kind = "ctx" -> [kind |-> "executing request", cause |-> Canceled]
    [] o.kind = "newreq" -> [kind |-> "creating request"]
    [] o.kind = "redirects" -> [kind |-> "executing request",
                                cause |-> [kind |-> "too many redirects"]]

\* fmt.Errorf("client error %d: %w", resp.StatusCode, err)
ClientError(status, err) == [kind |-> "client error", status |-> status, cause |-> err]
\* fmt.Errorf("failed after %d retries: %w", f.config.MaxRetries, lastErr)
RetriesExhausted(n, err) == [kind |-> "failed after retries", retries |-> n, cause |-> err]

Is5xx(o) == o.kind = "http" /\ o.status >= 500 /\ o.status < 600
Is4xx(o) == o.kind \in {"http", "body"} /\ o.status >= 400 /\ o.status < 500
Retryable(o) == o.kind # "ok" /\ ~Is4xx(o)

(***************************************************************************)
(* New(config), a limiter from NewSimpleRateLimiter(burst, d) or none, and *)
(* a context not yet cancelled. The bucket starts full.                    *)
(***************************************************************************)
NewFetcher ==
  /\ config \in [MaxRetries : 0..MaxRetriesCap,
                 InitialDelay : {1},
                 MaxDelay : {1, 3},
                 RateLimiter : BOOLEAN,
                 burst : 1..MaxBurst,
                 urlOK : BOOLEAN]
  /\ pc = "idle"
  /\ attempt = 0
  /\ lastErr = NoErr
  /\ ctxDone = FALSE
  /\ tokens = (IF config.RateLimiter THEN config.burst ELSE 0)
  /\ outcome = NewRequestOutcome
  /\ result = [resp |-> NilResp, err |-> NoErr]
  /\ requests = 0
  /\ acquired = 0
  /\ sleeps = 0
  /\ trace = <<>>
  /\ hist = <<>>
  /\ waitErr = NoErr
  /\ cancelAt = "never"
  /\ reqAtCancel = 0

\* A fetcher nobody calls, for the specifications of the queue.
FetcherUnused ==
  /\ config = [MaxRetries |-> 0, InitialDelay |-> 1, MaxDelay |-> 1,
               RateLimiter |-> FALSE, burst |-> 1, urlOK |-> TRUE]
  /\ pc = "unused"
  /\ attempt = 0
  /\ lastErr = NoErr
  /\ ctxDone = FALSE
  /\ tokens = 0
  /\ outcome = NewRequestOutcome
  /\ result = [resp |-> NilResp, err |-> NoErr]
  /\ requests = 0
  /\ acquired = 0
  /\ sleeps = 0
  /\ trace = <<>>
  /\ hist = <<>>
  /\ waitErr = NoErr
  /\ cancelAt = "never"
  /\ reqAtCancel = 0

(***************************************************************************)
(* Fetcher.Fetch(ctx, url).                                                *)
(***************************************************************************)
\* return resp, err
ReturnNoResp(resp, err) ==
  /\ result' = [resp |-> NilResp, err |-> err]
  /\ pc' = "done"
Return(resp, err) ==
  /\ result' = [resp |-> resp, err |-> err]
  /\ pc' = "done"

\* attempt <= f.config.MaxRetries
LoopCondShort(a) == a < config.MaxRetries
LoopCond(a) == a <= config.MaxRetries

\* f.config.RateLimiter != nil, asked before attempt a
LimiterOnRetriesOnly(a) == config.RateLimiter /\ a > 0
UseLimiter(a) == config.RateLimiter

\* attempt > 0
IsRetryAfterFirst(a) == a > 1
IsRetry(a) == a > 0

\* After the backoff of attempt a, or at once for the first attempt: the
\* limiter if there is one, else doFetch.
ToAttempt(a) == pc' = (IF UseLimiter(a) THEN "wait" ELSE "send")

\* The head of the loop for attempt a: leave the loop when the retries are
\* used up, sleep before a retry, go straight on for the first attempt.
LoopHead(a) ==
  /\ attempt' = a
  /\ IF ~LoopCond(a)
       THEN /\ Return(NilResp, RetriesExhausted(config.MaxRetries, lastErr'))
            /\ UNCHANGED <<sleeps, trace>>
       ELSE /\ UNCHANGED result
            /\ IF IsRetry(a)
                 THEN /\ pc' = "backoff"
                      /\ sleeps' = sleeps + 1
                      /\ \E delay \in calculateBackoff(config.InitialDelay,
                                                       config.MaxDelay, a) :
                           trace' = Append(trace, [e |-> "sleep", delay |-> delay])
                 ELSE ToAttempt(a) /\ UNCHANGED <<sleeps, trace>>

\* Fetch is called.
FetchCall ==
  /\ pc = "idle"
  /\ lastErr' = NoErr
  /\ LoopHead(0)
  /\ UNCHANGED <<config, ctxDone, tokens, outcome, requests, acquired, hist,
                 waitErr, cancelAt, reqAtCancel, qvars, xvars>>

\* select: case <-time.After(delay)
BackoffElapsed ==
  /\ pc = "backoff"
  /\ ToAttempt(attempt)
  /\ UNCHANGED <<config, attempt, lastErr, ctxDone, tokens, outcome, result,
                 requests, acquired, sleeps, trace, hist, waitErr, cancelAt, reqAtCancel, qvars, xvars>>

\* select: case <-ctx.Done(): return nil, ctx.Err()
BackoffUninterruptible == FALSE /\ UNCHANGED vars
BackoffCancelled ==
  /\ pc = "backoff"
  /\ ctxDone
  /\ Return(NilResp, Canceled)
  /\ UNCHANGED <<config, attempt, lastErr, ctxDone, tokens, outcome,
                 requests, acquired, sleeps, trace, hist, waitErr, cancelAt, reqAtCancel, qvars, xvars>>

\* RateLimiter.Wait: case <-rl.tokens: return nil
WaitToken ==
  /\ pc = "wait"
  /\ tokens > 0
  /\ tokens' = tokens - 1
  /\ acquired' = acquired + 1
  /\ trace' = Append(trace, [e |-> "token"])
  /\ pc' = "send"
  /\ UNCHANGED <<config, attempt, lastErr, ctxDone, outcome, result,
                 requests, sleeps, hist, waitErr, cancelAt, reqAtCancel, qvars, xvars>>

\* RateLimiter.Wait: case <-ctx.Done(): return ctx.Err(); Fetch returns nil, err
WaitCancelled ==
  /\ pc = "wait"
  /\ ctxDone
  /\ waitErr' = Canceled
  /\ Return(NilResp, waitErr')
  /\ UNCHANGED <<config, attempt, lastErr, ctxDone, tokens, outcome,
                 requests, acquired, sleeps, trace, hist, cancelAt, reqAtCancel, qvars, xvars>>

\* doFetch as far as sending: http.NewRequestWithContext fails on a bad
\* url; client.Do sends nothing when the context is already done.
Send ==
  /\ pc = "send"
  /\ IF ~config.urlOK
       THEN /\ outcome' = NewRequestOutcome
            /\ hist' = Append(hist, outcome')
            /\ pc' = "check"
            /\ UNCHANGED <<requests, trace>>
       ELSE IF ctxDone
         THEN /\ outcome' = CtxOutcome
              /\ hist' = Append(hist, outcome')
              /\ pc' = "check"
              /\ UNCHANGED <<requests, trace>>
         ELSE /\ requests' = requests + 1
              /\ trace' = Append(trace, [e |-> "request"])
              /\ pc' = "flight"
              /\ UNCHANGED <<outcome, hist>>
  /\ UNCHANGED <<config, attempt, lastErr, ctxDone, tokens, result,
                 acquired, sleeps, waitErr, cancelAt, reqAtCancel, qvars, xvars>>

\* doFetch from the server's answer on: client.Do returns, the body is
\* read, the status is looked at. A cancelled context may fail the request
\* in flight, or the answer may still come through.
Receive ==
  /\ pc = "flight"
  /\ \E o \in ServerOutcomes \cup (IF ctxDone THEN {CtxOutcome} ELSE {}) :
       /\ outcome' = o
       /\ hist' = Append(hist, o)
  /\ pc' = "check"
  /\ UNCHANGED <<config, attempt, lastErr, ctxDone, tokens, result,
                 requests, acquired, sleeps, trace, waitErr, cancelAt, reqAtCancel, qvars, xvars>>

\* ctx.Err() != nil, after a failed attempt
CtxErrNeverSet == FALSE
CtxErrSet == ctxDone

\* resp != nil && resp.StatusCode >= 400 && resp.StatusCode < 500
IsClientErrorNever(resp) == FALSE
IsClientError(resp) == ~resp.nil /\ resp.StatusCode >= 400 /\ resp.StatusCode < 500

\* The rest of the loop body: success returns; a failure is kept in
\* lastErr and ends Fetch when the context is done or the status is 4xx,
\* and otherwise goes round the loop.
Check ==
  /\ pc = "check"
  /\ LET resp == RespOf(outcome)
         err == ErrOf(outcome)
     IN IF err = NoErr
          THEN /\ Return(resp, NoErr)
               /\ UNCHANGED <<attempt, lastErr, sleeps, trace>>
          ELSE /\ lastErr' = err
               /\ IF CtxErrSet
                    THEN /\ Return(NilResp, Canceled)
                         /\ UNCHANGED <<attempt, sleeps, trace>>
                    ELSE IF IsClientError(resp)
                      THEN /\ Return(NilResp, ClientError(resp.StatusCode, err))
                           /\ UNCHANGED <<attempt, sleeps, trace>>
                      ELSE LoopHead(attempt + 1)
  /\ UNCHANGED <<config, ctxDone, tokens, outcome, requests, acquired, hist,
                 waitErr, cancelAt, reqAtCancel, qvars, xvars>>

(***************************************************************************)
(* The world around the call.                                              *)
(***************************************************************************)
\* The owner of ctx cancels it, before the call or while it runs.
Cancel ==
  /\ pc # "done"
  /\ ~ctxDone
  /\ ctxDone' = TRUE
  /\ cancelAt' = pc
  /\ reqAtCancel' = requests
  /\ UNCHANGED <<config, pc, attempt, lastErr, tokens, outcome, result,
                 requests, acquired, sleeps, trace, hist, waitErr, qvars, xvars>>

\* The limiter's goroutine on a tick: one token more, unless the bucket is full.
Tick ==
  /\ config.RateLimiter
  /\ tokens' = (IF tokens < config.burst THEN tokens + 1 ELSE tokens)
  /\ UNCHANGED <<config, pc, attempt, lastErr, ctxDone, outcome, result,
                 requests, acquired, sleeps, trace, hist, waitErr, cancelAt, reqAtCancel, qvars, xvars>>

(***************************************************************************)
(* Calls of calculateBackoff on their own.                                 *)
(***************************************************************************)
NewBackoff ==
  backoff \in [InitialDelay : InitialDelays, MaxDelay : MaxDelays,
               attempt : {0}, delay : {0}]

BackoffUnused ==
  backoff = [InitialDelay |-> 0, MaxDelay |-> 0, attempt |-> 0, delay |-> 0]

CallCalculateBackoff ==
  /\ \E n \in 1..MaxAttempt :
       \E d \in calculateBackoff(backoff.InitialDelay, backoff.MaxDelay, n) :
         backoff' = [backoff EXCEPT !.attempt = n, !.delay = d]
  /\ UNCHANGED <<qvars, fvars, tvars, cvars, rvars, nvars, uvars, lvars>>

(***************************************************************************)
(* Tracker: a sync.Map from URL to status code and an atomic counter.      *)
(* MarkVisited is two atomic steps, the Swap and the counter's Add; the    *)
(* readers are one atomic Load each.                                       *)
(***************************************************************************)
Statuses == {200, 404}

NewTracker ==
  /\ visited = <<>>
  /\ count = 0
  /\ tth = [t \in Threads |-> Idle]
  /\ marklog = <<>>
  /\ called = {}

InMarkVisited(t) == tth[t].pc \in {"swap", "add"}

\* visited.Swap(url, statusCode): the map afterwards.
LoadOrStore(m, u, s) == IF u \in DOMAIN m THEN m ELSE Put(m, u, s)
SwapVisited(m, u, s) == Put(m, u, s)

\* if !existed
IsNewAlways(existed) == TRUE
IsNew(existed) == ~existed

CallMarkVisited(t, u, s) ==
  /\ tth[t] = Idle
  /\ Len(marklog) + Cardinality({x \in Threads : tth[x].pc = "swap"}) < MaxMarks
  /\ tth' = [tth EXCEPT ![t] = [pc |-> "swap", url |-> u, status |-> s]]
  /\ called' = called \cup {u}
  /\ UNCHANGED <<visited, count, marklog, qvars, fvars, bvars, cvars, rvars, nvars, uvars, lvars>>

\* _, existed := t.visited.Swap(url, statusCode)
MarkSwap(t) ==
  /\ tth[t].pc = "swap"
  /\ LET u == tth[t].url
         existed == u \in DOMAIN visited
     IN  /\ visited' = SwapVisited(visited, u, tth[t].status)
         /\ marklog' = Append(marklog, <<u, tth[t].status>>)
         /\ tth' = [tth EXCEPT ![t] = IF IsNew(existed) THEN [pc |-> "add"]
                                      ELSE Idle]
  /\ UNCHANGED <<count, called, qvars, fvars, bvars, cvars, rvars, nvars, uvars, lvars>>

\* t.count.Add(1)
MarkCount(t) ==
  /\ tth[t].pc = "add"
  /\ count' = count + 1
  /\ tth' = [tth EXCEPT ![t] = Idle]
  /\ UNCHANGED <<visited, marklog, called, qvars, fvars, bvars, cvars, rvars, nvars, uvars, lvars>>

\* The readers, as what a call returns in the current state.
IsVisitedOK(u) == u \in DOMAIN visited /\ visited[u] = 200
IsVisited(u) == u \in DOMAIN visited
GetStatus(u) == IF u \in DOMAIN visited THEN <<visited[u], TRUE>> ELSE <<0, FALSE>>
VisitedCount == count

(***************************************************************************)
(* Redirects: client.Do against a server that answers with `hops`          *)
(* redirects and then a 200. Before it follows a redirect the client       *)
(* calls CheckRedirect with via, the requests made so far.                 *)
(***************************************************************************)
MaxRedirects == 10

\* CheckRedirect, given len(via).
CheckRedirect(via) ==
  IF via >= MaxRedirects THEN [kind |-> "too many redirects"] ELSE NoErr

NewRedirects ==
  /\ hops \in 0..MaxHops
  /\ followed = 0

RedirectsUnused ==
  /\ hops = 0
  /\ followed = 0

\* The server answers with a redirect: the client follows it with a new
\* request, or CheckRedirect fails client.Do.
Redirected ==
  /\ pc = "flight"
  /\ followed < hops
  /\ IF CheckRedirect(followed + 1) # NoErr
       THEN /\ outcome' = RedirectOutcome
            /\ hist' = Append(hist, outcome')
            /\ pc' = "check"
            /\ followed' = 0
            /\ UNCHANGED <<requests, trace>>
       ELSE /\ followed' = followed + 1
            /\ requests' = requests + 1
            /\ trace' = Append(trace, [e |-> "redirect"])
            /\ UNCHANGED <<outcome, hist, pc>>
  /\ UNCHANGED <<config, attempt, lastErr, ctxDone, tokens, result, acquired,
                 sleeps, waitErr, cancelAt, reqAtCancel, hops,
                 qvars, bvars, tvars, cvars, nvars, uvars, lvars>>

\* The server answers the last request of the chain with a 200.
ReceiveFinal ==
  /\ pc = "flight"
  /\ followed = hops
  /\ outcome' = [kind |-> "ok", status |-> 200]
  /\ hist' = Append(hist, outcome')
  /\ pc' = "check"
  /\ followed' = 0
  /\ UNCHANGED <<config, attempt, lastErr, ctxDone, tokens, result, requests,
                 acquired, sleeps, trace, waitErr, cancelAt, reqAtCancel, hops,
                 qvars, bvars, tvars, cvars, nvars, uvars, lvars>>

(***************************************************************************)
(* urlutil.Normalize(rawURL, baseURL). A string is a sequence of tokens:   *)
(* a scheme, ":", "/", a host name, a port with its colon, the path        *)
(* character "a", "?", "q", "#", and in a fragment the character "f", a    *)
(* space, the escapes "%66" (of "f") and "%20" (of the space), and the     *)
(* malformed escape "%zz". The inputs are the URLs and references of that  *)
(* shape, and the string "://h", which has no scheme before its colon.     *)
(***************************************************************************)
SchemeTokens == {"http", "HTTP", "https"}
HostTokens == {"h", "H"}
PortTokens == {":80", ":443"}

\* strings.ToLower, token by token.
ToLower(t) ==
  [i \in DOMAIN t |-> CASE t[i] = "HTTP" -> "http"
                        [] t[i] = "H" -> "h"
                        [] t[i] = "W" -> "w"
                        [] t[i] = "TEXT" -> "text"
                        [] t[i] = "HTML" -> "html"
                        [] t[i] = "CSS" -> "css"
                        [] OTHER -> t[i]]

\* strings.Index: the first place of a token, 0 for none.
Index(t, tok) ==
  IF \E i \in DOMAIN t : t[i] = tok
    THEN CHOOSE i \in DOMAIN t : t[i] = tok /\ \A j \in 1..(i - 1) : t[j] # tok
    ELSE 0
From(t, i) == SubSeq(t, i, Len(t))
HasPrefix(t, pre) == Len(t) >= Len(pre) /\ SubSeq(t, 1, Len(pre)) = pre
HasSuffix(t, suf) ==
  Len(t) >= Len(suf) /\ SubSeq(t, Len(t) - Len(suf) + 1, Len(t)) = suf
TrimSuffix(t, suf) ==
  IF HasSuffix(t, suf) THEN SubSeq(t, 1, Len(t) - Len(suf)) ELSE t

\* unescape(s, encodeFragment) and escape(s, encodeFragment): the space is
\* the character that shouldEscape reports.
unescape(t) ==
  [i \in DOMAIN t |-> CASE t[i] = "%20" -> " "
                        [] t[i] = "%66" -> "f"
                        [] OTHER -> t[i]]
escape(t) == [i \in DOMAIN t |-> IF t[i] = " " THEN "%20" ELSE t[i]]
validEncoded(t) == \A i \in DOMAIN t : t[i] # " "

\* The text after the first "#", which Parse hands to setFragment.
FragmentText(t) ==
  IF Index(t, "#") = 0 THEN <<>> ELSE From(t, Index(t, "#") + 1)

\* err != nil from url.Parse: getScheme finds the colon first ("missing
\* protocol scheme"), or unescape finds a malformed escape.
ParseFails(t) ==
  LET hashAt == Index(t, "#")
      noFrag == IF hashAt = 0 THEN t ELSE SubSeq(t, 1, hashAt - 1)
  IN  \/ noFrag # <<>> /\ noFrag[1] = ":"
      \/ \E i \in DOMAIN FragmentText(t) : FragmentText(t)[i] = "%zz"

\* url.Parse: the fragment (setFragment), the scheme (lowercased), the
\* query, the authority after "//", the path.
Parse(t) ==
  LET hashAt == Index(t, "#")
      noFrag == IF hashAt = 0 THEN t ELSE SubSeq(t, 1, hashAt - 1)
      frag == FragmentText(t)
      hasScheme == Len(noFrag) >= 2 /\ noFrag[1] \in SchemeTokens /\ noFrag[2] = ":"
      afterScheme == IF hasScheme THEN From(noFrag, 3) ELSE noFrag
      qAt == Index(afterScheme, "?")
      rest == IF qAt = 0 THEN afterScheme ELSE SubSeq(afterScheme, 1, qAt - 1)
      hasAuthority ==
        /\ hasScheme \/ ~HasPrefix(rest, <<"/", "/", "/">>)
        /\ HasPrefix(rest, <<"/", "/">>)
      afterSlashes == From(rest, 3)
      pathAt == Index(afterSlashes, "/")
  IN  [Scheme |-> IF hasScheme THEN ToLower(<<noFrag[1]>>) ELSE <<>>,
       Host |-> IF ~hasAuthority THEN <<>>
                ELSE IF pathAt = 0 THEN afterSlashes
                ELSE SubSeq(afterSlashes, 1, pathAt - 1),
       Path |-> IF ~hasAuthority THEN rest
                ELSE IF pathAt = 0 THEN <<>>
                ELSE From(afterSlashes, pathAt),
       RawQuery |-> IF qAt = 0 THEN <<>> ELSE From(afterScheme, qAt + 1),
       ForceQuery |-> qAt # 0 /\ qAt = Len(afterScheme),
       Fragment |-> unescape(frag),
       RawFragment |-> IF escape(unescape(frag)) = frag THEN <<>> ELSE frag]

IsAbsAlways(u) == TRUE
IsAbs(u) == u.Scheme # <<>>

\* resolvePath for paths without "." and ".." elements.
LastIndex(t, tok) ==
  IF \E i \in DOMAIN t : t[i] = tok
    THEN CHOOSE i \in DOMAIN t : t[i] = tok /\ \A j \in (i + 1)..Len(t) : t[j] # tok
    ELSE 0
resolvePath(base, ref) ==
  LET full == IF ref = <<>> THEN base
              ELSE IF ref[1] # "/" THEN SubSeq(base, 1, LastIndex(base, "/")) \o ref
              ELSE ref
  IN  IF full = <<>> THEN <<>>
      ELSE IF full[1] = "/" THEN full
      ELSE <<"/">> \o full

\* base.ResolveReference(ref), for a ref without a scheme.
ResolveReference(base, ref) ==
  IF ref.Host # <<>>
    THEN [ref EXCEPT !.Scheme = base.Scheme, !.Path = resolvePath(ref.Path, <<>>)]
    ELSE LET keep == ref.Path = <<>> /\ ~ref.ForceQuery /\ ref.RawQuery = <<>>
         IN  [Scheme |-> base.Scheme,
              Host |-> base.Host,
              Path |-> resolvePath(base.Path, ref.Path),
              RawQuery |-> IF keep THEN base.RawQuery ELSE ref.RawQuery,
              ForceQuery |-> ref.ForceQuery,
              Fragment |-> IF keep /\ ref.Fragment = <<>> THEN base.Fragment
                           ELSE ref.Fragment,
              RawFragment |-> IF keep /\ ref.Fragment = <<>>
                                THEN base.RawFragment
                                ELSE ref.RawFragment]

\* u.EscapedFragment()
EscapedFragment(u) ==
  IF /\ u.RawFragment # <<>>
     /\ validEncoded(u.RawFragment)
     /\ unescape(u.RawFragment) = u.Fragment
    THEN u.RawFragment
    ELSE escape(u.Fragment)

\* u.String()
String(u) ==
  (IF u.Scheme # <<>> THEN u.Scheme \o <<":">> ELSE <<>>)
  \o (IF (u.Scheme # <<>> \/ u.Host # <<>>) /\ (u.Host # <<>> \/ u.Path # <<>>)
        THEN <<"/", "/">> ELSE <<>>)
  \o u.Host
  \o (IF u.Path # <<>> /\ u.Path[1] # "/" /\ u.Host # <<>> THEN <<"/">> ELSE <<>>)
  \o u.Path
  \o (IF u.ForceQuery \/ u.RawQuery # <<>> THEN <<"?">> \o u.RawQuery ELSE <<>>)
  \o (IF u.Fragment # <<>> THEN <<"#">> \o EscapedFragment(u) ELSE <<>>)

NormErr == [ok |-> FALSE, s |-> <<>>]

\* u.RawQuery = ""; u.ForceQuery = false
RemoveQuery(u) == [u EXCEPT !.RawQuery = <<>>, !.ForceQuery = FALSE]

\* The steps of Normalize after the URL is absolute.
Normalized(u0) ==
  LET u1 == [u0 EXCEPT !.Scheme = ToLower(@), !.Host = ToLower(@)]
      u2 == IF u1.Scheme = <<"http">> /\ HasSuffix(u1.Host, <<":80">>)
              THEN [u1 EXCEPT !.Host = TrimSuffix(@, <<":80">>)]
            ELSE IF u1.Scheme = <<"https">> /\ HasSuffix(u1.Host, <<":443">>)
              THEN [u1 EXCEPT !.Host = TrimSuffix(@, <<":443">>)]
            ELSE u1
      u3 == RemoveQuery(u2)
      u4 == IF u3.Path # <<"/">> /\ HasSuffix(u3.Path, <<"/">>)
              THEN [u3 EXCEPT !.Path = TrimSuffix(@, <<"/">>)]
              ELSE u3
  IN  u4

\* The URL that Normalize holds after its resolving step.
Resolved(rawURL, baseURL) ==
  LET u == Parse(rawURL)
  IN  IF baseURL # <<>> /\ ~IsAbs(u)
        THEN ResolveReference(Parse(baseURL), u)
        ELSE u

Normalize(rawURL, baseURL) ==
  IF ParseFails(rawURL) THEN NormErr
  ELSE IF baseURL # <<>> /\ ~IsAbs(Parse(rawURL)) /\ ParseFails(baseURL)
    THEN NormErr
  ELSE IF ~IsAbs(Resolved(rawURL, baseURL)) THEN NormErr
  ELSE [ok |-> TRUE, s |-> String(Normalized(Resolved(rawURL, baseURL)))]

\* The inputs.
RECURSIVE PathsOfLen(_)
PathsOfLen(n) ==
  IF n = 0 THEN {<<>>}
  ELSE {Append(p, c) : p \in PathsOfLen(n - 1), c \in {"/", "a"}}
Paths == UNION {PathsOfLen(n) : n \in 0..MaxPathLen}
Queries == {<<>>, <<"?">>, <<"?", "q">>}
Fragments == {<<>>, <<"#">>, <<"#", "f">>, <<"#", " ">>, <<"#", "%66">>,
              <<"#", "%zz">>}
Unparseable == {<<":", "/", "/", "h">>}
Authorities ==
  {<<h>> : h \in HostTokens} \cup {<<"h", p>> : p \in PortTokens}
AbsoluteURLs ==
  {<<sc, ":", "/", "/">> \o a \o p \o q \o f :
     sc \in SchemeTokens, a \in Authorities,
     p \in {x \in Paths : x = <<>> \/ x[1] = "/"},
     q \in Queries, f \in Fragments}
References == {p \o q \o f : p \in Paths, q \in Queries, f \in Fragments}
BaseURLs == {<<>>, <<"http", ":", "/", "/", "h", "/", "a", "/", "a", "#", "f">>,
             <<"https", ":", "/", "/", "H", ":443">>, <<"/", "a">>} \cup Unparseable

NewNormalize ==
  /\ norm \in [rawURL : AbsoluteURLs \cup References \cup Unparseable,
               baseURL : BaseURLs,
               calls : {0}, n : {NormErr}, again : {NormErr}]

NormalizeUnused ==
  norm = [rawURL |-> <<>>, baseURL |-> <<>>, calls |-> 0, n |-> NormErr,
          again |-> NormErr]

\* n, err := Normalize(rawURL, baseURL)
CallNormalize ==
  /\ norm.calls = 0
  /\ norm' = [norm EXCEPT !.calls = 1, !.n = Normalize(norm.rawURL, norm.baseURL)]
  /\ UNCHANGED <<qvars, fvars, bvars, tvars, cvars, rvars, uvars, lvars>>

\* Normalize(n, "") on the result of a call that succeeded
CallNormalizeAgain ==
  /\ norm.calls = 1
  /\ norm.n.ok
  /\ norm' = [norm EXCEPT !.calls = 2, !.again = Normalize(norm.n.s, <<>>)]
  /\ UNCHANGED <<qvars, fvars, bvars, tvars, cvars, rvars, uvars, lvars>>

(***************************************************************************)
(* Queue.Add, Queue.Pop and Queue.IsEmpty as the worker pool sees them:    *)
(* each holds the mutex from its first statement to its return, so each    *)
(* is one step here. SpecQueue has them step by step.                      *)
(***************************************************************************)
(* urlutil.Filter: NewFilter(rootURL, whitelistDomains) and IsAllowed.     *)
(* Host names are the tokens "h" (also written "H"), "w" (also "W") and    *)
(* "x"; the path characters are "a" and "b".                               *)
(***************************************************************************)
\* path.Clean on a path without "." and ".." elements: a run of slashes
\* becomes one, a trailing slash goes unless the path is the root, and the
\* empty path becomes ".".
RECURSIVE Squeeze(_)
Squeeze(t) ==
  IF Len(t) < 2 THEN t
  ELSE IF t[1] = "/" /\ t[2] = "/" THEN Squeeze(Tail(t))
  ELSE <<t[1]>> \o Squeeze(Tail(t))
Clean(t) ==
  LET c == Squeeze(t)
  IN  IF c = <<>> THEN <<".">>
      ELSE IF Len(c) > 1 /\ c[Len(c)] = "/" THEN SubSeq(c, 1, Len(c) - 1)
      ELSE c

\* path.Dir: all but the last element of the path, cleaned.
Dir(p) == Clean(SubSeq(p, 1, LastIndex(p, "/")))

\* rootPath := path.Dir(u.Path); if rootPath == "." { rootPath = "/" }
RootPath(p) == IF Dir(p) = <<".">> THEN <<"/">> ELSE Dir(p)

NewFilter(rootURL, whitelistDomains) ==
  IF ParseFails(rootURL)
    THEN [rootDomain |-> <<>>, rootPath |-> <<>>, whitelist |-> {}]
    ELSE [rootDomain |-> ToLower(Parse(rootURL).Host),
          rootPath |-> RootPath(Parse(rootURL).Path),
          whitelist |-> {ToLower(d) : d \in whitelistDomains}]

\* (bool, error) of f.IsAllowed(rawURL)
IsAllowed(f, rawURL) ==
  IF ParseFails(rawURL) THEN [ok |-> FALSE, err |-> TRUE]
  ELSE IF ~IsAbs(Parse(rawURL)) THEN [ok |-> FALSE, err |-> TRUE]
  ELSE LET u == Parse(rawURL)
           domain == ToLower(u.Host)
       IN  IF domain = f.rootDomain
             THEN [ok |-> HasPrefix(u.Path, f.rootPath), err |-> FALSE]
           ELSE IF domain \in f.whitelist
             THEN [ok |-> TRUE, err |-> FALSE]
           ELSE [ok |-> FALSE, err |-> FALSE]

\* The inputs.
RECURSIVE FilterPathsOfLen(_)
FilterPathsOfLen(n) ==
  IF n = 0 THEN {<<>>}
  ELSE {Append(p, c) : p \in FilterPathsOfLen(n - 1), c \in {"/", "a", "b"}}
FilterPaths ==
  {p \in UNION {FilterPathsOfLen(n) : n \in 0..MaxPathLen} :
     p = <<>> \/ p[1] = "/"}
FilterHosts == {<<"h">>, <<"H">>, <<"w">>, <<"W">>, <<"x">>}
FilterURLs ==
  {<<sc, ":", "/", "/">> \o h \o p :
     sc \in {"http", "https"}, h \in FilterHosts, p \in FilterPaths}
  \cup {<<"/", "a">>, <<"http", ":", "/", "a">>} \cup Unparseable
RootURLs ==
  {<<"https", ":", "/", "/", "h", "/", "a", "/", "a">>,
   <<"https", ":", "/", "/", "H">>,
   <<"http", ":", "/", "/", "h", "/", "a", "/", "/", "b">>,
   <<"https", ":", "/", "/", "h", "/", "a", "/", "b", "/">>,
   <<"https", ":", "/", "/", "h", "/">>,
   <<"http", ":", "/", "/", "h", "/", "a", "/", "/", "b", "/", "a">>}
  \cup Unparseable
Whitelists == {{}, {<<"w">>}, {<<"W">>, <<"h">>}}

NoFilter == [rootDomain |-> <<>>, rootPath |-> <<>>, whitelist |-> {}]
NoVerdict == [ok |-> FALSE, err |-> FALSE]

InitFilterArgs ==
  filt \in [rootURL : RootURLs, whitelistDomains : Whitelists,
            rawURL : FilterURLs, calls : {0}, f : {NoFilter},
            allowed : {NoVerdict}]

FilterUnused ==
  filt = [rootURL |-> <<>>, whitelistDomains |-> {}, rawURL |-> <<>>,
          calls |-> 0, f |-> NoFilter, allowed |-> NoVerdict]

\* f := NewFilter(rootURL, whitelistDomains)
CallNewFilter ==
  /\ filt.calls = 0
  /\ filt' = [filt EXCEPT !.calls = 1,
                          !.f = NewFilter(filt.rootURL, filt.whitelistDomains)]
  /\ UNCHANGED <<qvars, fvars, bvars, tvars, cvars, rvars, nvars, det, lvars>>

\* allowed, err := f.IsAllowed(rawURL)
CallIsAllowed ==
  /\ filt.calls = 1
  /\ filt' = [filt EXCEPT !.calls = 2, !.allowed = IsAllowed(filt.f, filt.rawURL)]
  /\ UNCHANGED <<qvars, fvars, bvars, tvars, cvars, rvars, nvars, det, lvars>>

\* The seed of a crawl: n, _ := Normalize(rootURL, ""); f.IsAllowed(n)
CallIsAllowedOfRoot ==
  /\ filt.calls = 1
  /\ Normalize(filt.rootURL, <<>>).ok
  /\ filt' = [filt EXCEPT !.calls = 3,
                          !.rawURL = Normalize(filt.rootURL, <<>>).s,
                          !.allowed = IsAllowed(filt.f, Normalize(filt.rootURL, <<>>).s)]
  /\ UNCHANGED <<qvars, fvars, bvars, tvars, cvars, rvars, nvars, det, lvars>>

(***************************************************************************)
(* urlutil.DetectResourceType(rawURL, contentType). A content type is a    *)
(* sequence of tokens such as "text", "/", "html", ";", " ", "charset"; a  *)
(* file name is "a", then "." and the name of an extension.                *)
(***************************************************************************)
\* strings.Contains
Contains(t, sub) ==
  \E i \in 1..(Len(t) - Len(sub) + 1) : SubSeq(t, i, i + Len(sub) - 1) = sub

\* strings.Split(t, sep)[0]
SplitFirst(t, sep) ==
  IF Index(t, sep) = 0 THEN t ELSE SubSeq(t, 1, Index(t, sep) - 1)

\* strings.TrimSpace
RECURSIVE TrimSpace(_)
TrimSpace(t) ==
  IF t = <<>> THEN t
  ELSE IF t[1] = " " THEN TrimSpace(Tail(t))
  ELSE IF t[Len(t)] = " " THEN TrimSpace(SubSeq(t, 1, Len(t) - 1))
  ELSE t

\* ct := strings.TrimSpace(strings.ToLower(strings.Split(contentType, ";")[0]))
MediaTypeAsSent(contentType) == contentType
MediaType(contentType) == TrimSpace(ToLower(SplitFirst(contentType, ";")))

\* The switch on the content type; "none" when no case matches.
ByContentType(ct) ==
  CASE Contains(ct, <<"text", "/", "html">>) -> "HTML"
    [] Contains(ct, <<"text", "/", "css">>) -> "CSS"
    [] \/ Contains(ct, <<"javascript">>)
       \/ Contains(ct, <<"application", "/", "javascript">>)
       \/ Contains(ct, <<"application", "/", "x-", "javascript">>)
       \/ Contains(ct, <<"text", "/", "javascript">>) -> "JS"
    [] HasPrefix(ct, <<"image", "/">>) -> "Image"
    [] \/ Contains(ct, <<"font">>)
       \/ Contains(ct, <<"woff">>)
       \/ Contains(ct, <<"ttf">>) -> "Font"
    [] OTHER -> "none"

\* path.Ext: from the last "." of the last element of the path.
Ext(p) ==
  LET last == From(p, LastIndex(p, "/") + 1)
  IN  IF LastIndex(last, ".") = 0 THEN <<>> ELSE From(last, LastIndex(last, "."))

\* The switch on the extension.
ByExtension(ext) ==
  CASE ext = <<>> -> "HTML"
    [] Len(ext) = 2 /\ ext[2] \in {"html", "htm"} -> "HTML"
    [] Len(ext) = 2 /\ ext[2] \in {"css"} -> "CSS"
    [] Len(ext) = 2 /\ ext[2] \in {"js", "mjs"} -> "JS"
    [] Len(ext) = 2 /\ ext[2] \in {"png", "jpg", "jpeg", "gif", "svg", "webp",
                                    "ico", "bmp"} -> "Image"
    [] Len(ext) = 2 /\ ext[2] \in {"woff", "woff2", "ttf", "otf", "eot"} -> "Font"
    [] Len(ext) = 2 /\ ext[2] \in {"pdf", "zip", "tar", "gz"} -> "Other"
    [] OTHER -> "Unknown"

DetectResourceType(rawURL, contentType) ==
  IF contentType # <<>> /\ ByContentType(MediaType(contentType)) # "none"
    THEN ByContentType(MediaType(contentType))
  ELSE IF ParseFails(rawURL) THEN "Other"
  ELSE ByExtension(ToLower(Ext(Parse(rawURL).Path)))

\* Filter.GetResourceType: the receiver is not used.
GetResourceType(rawURL, contentType) == DetectResourceType(rawURL, contentType)

\* fetcher.DetectResourceType: the same switch on the content type, then
\* path.Ext of the url as a whole, which is not parsed; its switch on the
\* extension has the cases of urlutil's but for "", which falls to the
\* default.
FetcherByExtension(ext) == IF ext = <<>> THEN "Unknown" ELSE ByExtension(ext)

FetcherDetectResourceType(url, contentType) ==
  IF contentType # <<>> /\ ByContentType(MediaType(contentType)) # "none"
    THEN ByContentType(MediaType(contentType))
  ELSE FetcherByExtension(ToLower(Ext(url)))

\* The inputs: each content type with the kind it names ("none": it names
\* no known kind), and URLs with and without an extension.
ContentTypes ==
  {[text |-> <<>>, names |-> "none"],
   [text |-> <<"text", "/", "html">>, names |-> "HTML"],
   [text |-> <<"text", "/", "html", ";", " ", "charset">>, names |-> "HTML"],
   [text |-> <<"TEXT", "/", "HTML">>, names |-> "HTML"],
   [text |-> <<"text", "/", "css">>, names |-> "CSS"],
   [text |-> <<"text", "/", "CSS", " ", ";", "charset">>, names |-> "CSS"],
   [text |-> <<"application", "/", "javascript">>, names |-> "JS"],
   [text |-> <<"application", "/", "x-", "javascript">>, names |-> "JS"],
   [text |-> <<"text", "/", "javascript">>, names |-> "JS"],
   [text |-> <<"image", "/", "png">>, names |-> "Image"],
   [text |-> <<" ", "image", "/", "svg+xml">>, names |-> "Image"],
   [text |-> <<"font", "/", "woff", "2">>, names |-> "Font"],
   [text |-> <<"font", "/", "ttf">>, names |-> "Font"],
   [text |-> <<"application", "/", "x-", "font", "-", "ttf">>, names |-> "Font"],
   [text |-> <<"application", "/", "font", "-", "woff">>, names |-> "Font"],
   [text |-> <<"application", "/", "json">>, names |-> "none"],
   [text |-> <<"text", "/", "plain", ";", " ", "charset">>, names |-> "none"],
   [text |-> <<"application", "/", "octet-stream">>, names |-> "none"]}
ExtensionNames ==
  {"html", "htm", "css", "CSS", "js", "mjs", "png", "jpg", "jpeg", "gif", "svg",
   "webp", "ico", "bmp", "woff", "woff2", "ttf", "otf", "eot", "pdf", "zip",
   "tar", "gz", "xyz"}
Site == <<"https", ":", "/", "/", "h">>
DetectURLs ==
  {Site \o <<"/", "a", ".", e>> \o q \o f :
     e \in ExtensionNames, q \in {<<>>, <<"?", "q">>}, f \in {<<>>, <<"#", "f">>}}
  \cup {Site, Site \o <<"/">>, Site \o <<"/", "a">>, Site \o <<"/", "a", ".">>,
         Site \o <<"/", "a", ".", "css", "/", "a">>,
         Site \o <<"/", "a", ".", "css", "/">>,
         Site \o <<"/", "a", ".", "tar", ".", "gz">>,
         Site \o <<"/", "a", "?", "q", ".", "css">>,
         Site \o <<"/", "a", "#", "f", ".", "css">>,
         <<"/", "a", ".", "css">>}
  \cup Unparseable

NewDetect ==
  det \in [rawURL : DetectURLs, contentType : {c.text : c \in ContentTypes},
           calls : {0}, rt : {"none"}, grt : {"none"}, frt : {"none"}]

DetectUnused ==
  det = [rawURL |-> <<>>, contentType |-> <<>>, calls |-> 0, rt |-> "none",
         grt |-> "none", frt |-> "none"]

\* rt := DetectResourceType(rawURL, contentType)
CallDetectResourceType ==
  /\ det.calls = 0
  /\ det' = [det EXCEPT !.calls = 1,
                        !.rt = DetectResourceType(det.rawURL, det.contentType)]
  /\ UNCHANGED <<qvars, fvars, bvars, tvars, cvars, rvars, nvars, filt, lvars>>

\* grt := f.GetResourceType(rawURL, contentType), on the same arguments
CallGetResourceType ==
  /\ det.calls = 1
  /\ det' = [det EXCEPT !.calls = 2,
                        !.grt = GetResourceType(det.rawURL, det.contentType)]
  /\ UNCHANGED <<qvars, fvars, bvars, tvars, cvars, rvars, nvars, filt, lvars>>

\* frt := fetcher.DetectResourceType(rawURL, contentType), on the same arguments
CallFetcherDetectResourceType ==
  /\ det.calls = 2
  /\ det' = [det EXCEPT !.calls = 3,
                        !.frt = FetcherDetectResourceType(det.rawURL, det.contentType)]
  /\ UNCHANGED <<qvars, fvars, bvars, tvars, cvars, rvars, nvars, filt, lvars>>

(***************************************************************************)
(* fetcher.SimpleRateLimiter on its own. The bucket is the buffered        *)
(* channel rl.tokens, of capacity `requests`; only the number of tokens in *)
(* it matters. The ticker is a runtime timer that sends on ticker.C, a     *)
(* channel that holds at most one tick and is never closed; the goroutine  *)
(* started by NewSimpleRateLimiter ranges over it.                         *)
(***************************************************************************)
Callers == 1..NThreads

\* The goroutine's select: send a token, or the default case when the
\* bucket is full.
RefillAlways(held, capacity) == held + 1
Refill(held, capacity) == IF held < capacity THEN held + 1 ELSE held

NotInWait == [pc |-> "idle", done |-> FALSE, doneAtCall |-> FALSE,
              tokensAtCall |-> 0, err |-> "none"]

\* Before NewSimpleRateLimiter(requests, duration), with duration / requests
\* positive.
InitLimiterArgs ==
  /\ rl \in [requests : 1..MaxRequests, tokens : {0}, ticker : {"none"},
             C : {FALSE}, goroutine : {"none"}, stale : {FALSE}]
  /\ wt = [c \in Callers |-> NotInWait]

LimiterUnused ==
  /\ rl = [requests |-> 1, tokens |-> 0, ticker |-> "none", C |-> FALSE,
           goroutine |-> "none", stale |-> FALSE]
  /\ wt = [c \in Callers |-> NotInWait]

\* rl := NewSimpleRateLimiter(requests, duration)
CallNewSimpleRateLimiter ==
  /\ rl.ticker = "none"
  /\ rl' = [rl EXCEPT !.tokens = rl.requests, !.ticker = "running",
                      !.goroutine = "range"]
  /\ UNCHANGED <<wt, qvars, fvars, bvars, tvars, cvars, rvars, nvars, uvars>>

\* The runtime timer of the ticker: a tick is sent on ticker.C, or dropped
\* when the one before it has not been received.
TimerFires ==
  /\ rl.ticker = "running"
  /\ ~rl.C
  /\ rl' = [rl EXCEPT !.C = TRUE]
  /\ UNCHANGED <<wt, qvars, fvars, bvars, tvars, cvars, rvars, nvars, uvars>>

\* The goroutine: for range rl.ticker.C { select { case rl.tokens <- ...: default: } }
Replenish ==
  /\ rl.goroutine = "range"
  /\ rl.C
  /\ rl' = [rl EXCEPT !.C = FALSE, !.stale = FALSE,
                      !.tokens = Refill(rl.tokens, rl.requests)]
  /\ UNCHANGED <<wt, qvars, fvars, bvars, tvars, cvars, rvars, nvars, uvars>>

\* rl.Stop(): rl.ticker.Stop(). No more ticks are sent and the channel is
\* not closed. A tick sent before and not yet received is still received
\* afterwards or is discarded, depending on the Go release that built the
\* program.
CallStop ==
  /\ rl.ticker = "running"
  /\ \E kept \in {rl.C, FALSE} :
       rl' = [rl EXCEPT !.ticker = "stopped", !.C = kept, !.stale = kept]
  /\ UNCHANGED <<wt, qvars, fvars, bvars, tvars, cvars, rvars, nvars, uvars>>

\* A caller enters rl.Wait(ctx), with a ctx that is done already or is not.
CallWait(c) ==
  /\ rl.ticker # "none"
  /\ wt[c].pc # "select"
  /\ \E done \in BOOLEAN :
       wt' = [wt EXCEPT ![c] = [pc |-> "select", done |-> done,
                                doneAtCall |-> done,
                                tokensAtCall |-> rl.tokens, err |-> "none"]]
  /\ UNCHANGED <<rl, qvars, fvars, bvars, tvars, cvars, rvars, nvars, uvars>>

\* The owner of the caller's ctx cancels it while Wait is blocked.
CancelWait(c) ==
  /\ wt[c].pc = "select"
  /\ ~wt[c].done
  /\ wt' = [wt EXCEPT ![c].done = TRUE]
  /\ UNCHANGED <<rl, qvars, fvars, bvars, tvars, cvars, rvars, nvars, uvars>>

\* Wait: case <-rl.tokens: return nil. When both cases of the select can
\* proceed, either is chosen.
WaitReceives(c) ==
  /\ wt[c].pc = "select"
  /\ rl.tokens > 0
  /\ rl' = [rl EXCEPT !.tokens = rl.tokens - 1]
  /\ wt' = [wt EXCEPT ![c].pc = "returned", ![c].err = "nil"]
  /\ UNCHANGED <<qvars, fvars, bvars, tvars, cvars, rvars, nvars, uvars>>

\* Wait: case <-ctx.Done(): return ctx.Err()
WaitDone(c) ==
  /\ wt[c].pc = "select"
  /\ wt[c].done
  /\ wt' = [wt EXCEPT ![c].pc = "returned", ![c].err = "context canceled"]
  /\ UNCHANGED <<rl, qvars, fvars, bvars, tvars, cvars, rvars, nvars, uvars>>

(***************************************************************************)
IsEmptyAlways == TRUE
IsEmpty == Len(pq) = 0

\* Queue.Len()
QueueLen == Len(pq)

QueueAdd(u, rt) ==
  /\ IF u \in seen
       THEN UNCHANGED <<pq, seen>>
       ELSE /\ seen' = seen \cup {u}
            /\ pq' = heapPush(pq, QueueItem(u, rt))
  /\ UNCHANGED <<mu, th, everAdded, admitted, addTrue, popCount, drain>>

QueuePop ==
  /\ pq' = heapPopRest(pq)
  /\ seen' = SeenAfterPop(heapPopItem(pq))
  /\ UNCHANGED <<mu, th, everAdded, admitted, addTrue, popCount, drain>>

\* MarkVisited, both of its steps.
MarkVisited(u, s) ==
  /\ visited' = SwapVisited(visited, u, s)
  /\ count' = IF IsNew(u \in DOMAIN visited) THEN count + 1 ELSE count
  /\ UNCHANGED <<tth, marklog, called>>

(***************************************************************************)
(* The worker pool. The site is a link graph over the pages 1..MaxPage:    *)
(* every page links to the next two pages and to one URL out of scope.     *)
(***************************************************************************)
Pages == 1..MaxPage
Root == 1
OutOfScope == 0
Links(u) == {(u % MaxPage) + 1, ((u + 1) % MaxPage) + 1, OutOfScope}
isAllowed(u) == u \in Pages
SentinelFailure == -1

Failures == {"client error", "failed after retries"}
FetchResults == {"nil"} \cup Failures

Holding(w) == wk[w].pc \in {"check", "fetch", "record", "enqueue"}
MinOf(S) == CHOOSE x \in S : \A y \in S : x <= y

NewCrawl ==
  /\ run = "new"
  /\ cancelled = FALSE
  /\ wk = [w \in Threads |-> Idle]
  /\ inflight = 0
  /\ fetchlog = <<>>
  /\ discovered = {}
  /\ failed = {}

CrawlUnused ==
  /\ run = "unused"
  /\ cancelled = FALSE
  /\ wk = [w \in Threads |-> Idle]
  /\ inflight = 0
  /\ fetchlog = <<>>
  /\ discovered = {}
  /\ failed = {}

\* The Orchestrator seeds the Frontier with the root URL.
Seed ==
  /\ run = "new"
  /\ run' = "running"
  /\ QueueAdd(Root, HeapTypeOf(Root))
  /\ discovered' = {Root}
  /\ UNCHANGED <<cancelled, wk, inflight, fetchlog, failed, fvars, bvars, tvars, rvars, nvars, uvars, lvars>>

\* A worker pops an item and holds it.
WorkerPop(w) ==
  /\ run = "running" /\ ~cancelled
  /\ wk[w] = Idle
  /\ Len(pq) > 0
  /\ wk' = [wk EXCEPT ![w] = [pc |-> "check", url |-> heapPopItem(pq).URL]]
  /\ QueuePop
  /\ inflight' = inflight + 1
  /\ UNCHANGED <<run, cancelled, fetchlog, discovered, failed, fvars, bvars, tvars, rvars, nvars, uvars, lvars>>

\* If the Ledger holds a status for the URL, skip; otherwise fetch.
WorkerCheck(w) ==
  /\ run = "running" /\ ~cancelled
  /\ wk[w].pc = "check"
  /\ IF IsVisited(wk[w].url)
       THEN /\ wk' = [wk EXCEPT ![w] = Idle]
            /\ inflight' = inflight - 1
            /\ UNCHANGED fetchlog
       ELSE /\ wk' = [wk EXCEPT ![w].pc = "fetch"]
            /\ fetchlog' = Append(fetchlog, wk[w].url)
            /\ UNCHANGED inflight
  /\ UNCHANGED <<run, cancelled, discovered, failed, qvars, fvars, bvars, tvars, rvars, nvars, uvars, lvars>>

\* Fetch returns to the worker: a response, or one of its errors.
FetchReturns(w) ==
  /\ run = "running" /\ ~cancelled
  /\ wk[w].pc = "fetch"
  /\ \E res \in FetchResults :
       wk' = [wk EXCEPT ![w] = [pc |-> "record", url |-> wk[w].url, res |-> res]]
  /\ UNCHANGED <<run, cancelled, inflight, fetchlog, discovered, failed,
                 qvars, fvars, bvars, tvars, rvars, nvars, uvars, lvars>>

\* The worker records the status; after a failure it is done with the item.
WorkerRecord(w) ==
  /\ run = "running" /\ ~cancelled
  /\ wk[w].pc = "record"
  /\ LET u == wk[w].url
     IN  IF wk[w].res = "nil"
           THEN /\ MarkVisited(u, 200)
                /\ wk' = [wk EXCEPT ![w] = [pc |-> "enqueue", url |-> u,
                                            pending |-> Links(u)]]
                /\ discovered' = discovered \cup {c \in Links(u) : isAllowed(c)}
                /\ UNCHANGED <<inflight, failed>>
           ELSE /\ MarkVisited(u, SentinelFailure)
                /\ wk' = [wk EXCEPT ![w] = Idle]
                /\ inflight' = inflight - 1
                /\ failed' = failed \cup {u}
                /\ UNCHANGED discovered
  /\ UNCHANGED <<run, cancelled, fetchlog, qvars, fvars, bvars, rvars, nvars, uvars, lvars>>

\* The worker filters the next candidate and adds it to the Frontier; with
\* none left it is done with the item.
WorkerEnqueue(w) ==
  /\ run = "running" /\ ~cancelled
  /\ wk[w].pc = "enqueue"
  /\ IF wk[w].pending = {}
       THEN /\ wk' = [wk EXCEPT ![w] = Idle]
            /\ inflight' = inflight - 1
            /\ UNCHANGED qvars
       ELSE LET c == MinOf(wk[w].pending)
            IN  /\ wk' = [wk EXCEPT ![w].pending = @ \ {c}]
                /\ IF isAllowed(c) THEN QueueAdd(c, HeapTypeOf(c))
                                   ELSE UNCHANGED qvars
                /\ UNCHANGED inflight
  /\ UNCHANGED <<run, cancelled, fetchlog, discovered, failed, fvars, bvars, tvars, rvars, nvars, uvars, lvars>>

\* Quiescence: the Frontier is empty and nothing is in flight.
Quiescent == IsEmpty /\ inflight = 0

Quiesce ==
  /\ run = "running" /\ ~cancelled
  /\ Quiescent
  /\ run' = "returned"
  /\ UNCHANGED <<cancelled, wk, inflight, fetchlog, discovered, failed,
                 qvars, fvars, bvars, tvars, rvars, nvars, uvars, lvars>>

\* The cancellation signal of the run is raised.
CancelRun ==
  /\ run = "running" /\ ~cancelled
  /\ cancelled' = TRUE
  /\ UNCHANGED <<run, wk, inflight, fetchlog, discovered, failed,
                 qvars, fvars, bvars, tvars, rvars, nvars, uvars, lvars>>

\* A fetch in flight sees the signal and returns: the cancellation error,
\* or the response when it was already there.
FetchIgnoresSignal(w) == FALSE /\ UNCHANGED vars
FetchCancelled(w) ==
  /\ cancelled
  /\ wk[w].pc = "fetch"
  /\ \E res \in {"context canceled", "nil"} :
       wk' = [wk EXCEPT ![w] = [pc |-> "record", url |-> wk[w].url, res |-> res]]
  /\ UNCHANGED <<run, cancelled, inflight, fetchlog, discovered, failed,
                 qvars, fvars, bvars, tvars, rvars, nvars, uvars, lvars>>

\* A worker outside a fetch sees the signal and stops.
WorkerExit(w) ==
  /\ cancelled
  /\ wk[w].pc \notin {"fetch", "exited"}
  /\ wk' = [wk EXCEPT ![w] = [pc |-> "exited"]]
  /\ inflight' = IF Holding(w) THEN inflight - 1 ELSE inflight
  /\ UNCHANGED <<run, cancelled, fetchlog, discovered, failed,
                 qvars, fvars, bvars, tvars, rvars, nvars, uvars, lvars>>

\* run returns once every worker has stopped.
RunReturns ==
  /\ cancelled
  /\ run = "running"
  /\ \A w \in Threads : wk[w].pc = "exited"
  /\ run' = "returned"
  /\ UNCHANGED <<cancelled, wk, inflight, fetchlog, discovered, failed,
                 qvars, fvars, bvars, tvars, rvars, nvars, uvars, lvars>>

(***************************************************************************)
(* SpecCrawl: one crawl run with NThreads workers; SpecCrawlFair adds that *)
(* every worker keeps running and every fetch returns.                     *)
(***************************************************************************)
InitCrawl == NewQueue /\ FetcherUnused /\ BackoffUnused /\ NewTracker /\ NewCrawl /\ RedirectsUnused /\ NormalizeUnused /\ FilterUnused /\ DetectUnused /\ LimiterUnused

WorkerStep(w) ==
  \/ WorkerPop(w)
  \/ WorkerCheck(w)
  \/ FetchReturns(w)
  \/ WorkerRecord(w)
  \/ WorkerEnqueue(w)
  \/ FetchCancelled(w)
  \/ WorkerExit(w)

NextCrawl ==
  \/ Seed
  \/ \E w \in Threads : WorkerPop(w)
  \/ \E w \in Threads : WorkerCheck(w)
  \/ \E w \in Threads : FetchReturns(w)
  \/ \E w \in Threads : WorkerRecord(w)
  \/ \E w \in Threads : WorkerEnqueue(w)
  \/ \E w \in Threads : FetchCancelled(w)
  \/ \E w \in Threads : WorkerExit(w)
  \/ Quiesce
  \/ CancelRun
  \/ RunReturns

SpecCrawl == InitCrawl /\ [][NextCrawl]_vars

SpecCrawlFair ==
  /\ SpecCrawl
  /\ WF_vars(Seed)
  /\ \A w \in Threads : WF_vars(WorkerStep(w))
  /\ WF_vars(Quiesce)
  /\ WF_vars(RunReturns)

(***************************************************************************)
(* SpecDetect: one call of DetectResourceType.                             *)
(***************************************************************************)
InitDetect ==
  /\ NewQueue /\ FetcherUnused /\ BackoffUnused /\ NewTracker /\ CrawlUnused
  /\ RedirectsUnused /\ NormalizeUnused /\ FilterUnused /\ NewDetect /\ LimiterUnused

NextDetect ==
  \/ CallDetectResourceType
  \/ CallGetResourceType
  \/ CallFetcherDetectResourceType

SpecDetect == InitDetect /\ [][NextDetect]_vars

(***************************************************************************)
(* SpecFilter: a Filter is built and asked about one URL.                  *)
(***************************************************************************)
InitFilter ==
  /\ NewQueue /\ FetcherUnused /\ BackoffUnused /\ NewTracker /\ CrawlUnused
  /\ RedirectsUnused /\ NormalizeUnused /\ InitFilterArgs /\ DetectUnused /\ LimiterUnused

NextFilter ==
  \/ CallNewFilter
  \/ CallIsAllowed
  \/ CallIsAllowedOfRoot

SpecFilter == InitFilter /\ [][NextFilter]_vars

(***************************************************************************)
(* SpecNormalize: Normalize on an input, then on its own result.           *)
(***************************************************************************)
InitNormalize ==
  /\ NewQueue /\ FetcherUnused /\ BackoffUnused /\ NewTracker /\ CrawlUnused
  /\ RedirectsUnused /\ NewNormalize /\ FilterUnused /\ DetectUnused /\ LimiterUnused

NextNormalize ==
  \/ CallNormalize
  \/ CallNormalizeAgain

SpecNormalize == InitNormalize /\ [][NextNormalize]_vars

(***************************************************************************)
(* SpecRedirect: one call of Fetch, without a limiter or a cancellation,   *)
(* against a redirecting server.                                           *)
(***************************************************************************)
InitRedirect ==
  /\ NewQueue /\ NewFetcher /\ BackoffUnused /\ NewTracker /\ CrawlUnused
  /\ NewRedirects /\ NormalizeUnused /\ FilterUnused /\ DetectUnused /\ LimiterUnused
  /\ ~config.RateLimiter
  /\ config.urlOK

NextRedirect ==
  \/ FetchCall
  \/ BackoffElapsed
  \/ Send
  \/ Redirected
  \/ ReceiveFinal
  \/ Check

SpecRedirect == InitRedirect /\ [][NextRedirect]_vars

(***************************************************************************)
(* SpecTracker: NThreads threads calling MarkVisited, MaxMarks calls in    *)
(* all.                                                                    *)
(***************************************************************************)
InitTracker == NewQueue /\ FetcherUnused /\ BackoffUnused /\ NewTracker /\ CrawlUnused /\ RedirectsUnused /\ NormalizeUnused /\ FilterUnused /\ DetectUnused /\ LimiterUnused

NextTracker ==
  \E t \in Threads :
    \/ \E u \in URLs, s \in Statuses : CallMarkVisited(t, u, s)
    \/ MarkSwap(t)
    \/ MarkCount(t)

SpecTracker == InitTracker /\ [][NextTracker]_vars

(***************************************************************************)
(* SpecBackoff: calls of calculateBackoff on one configuration.            *)
(***************************************************************************)
InitBackoff == NewQueue /\ FetcherUnused /\ NewBackoff /\ NewTracker /\ CrawlUnused /\ RedirectsUnused /\ NormalizeUnused /\ FilterUnused /\ DetectUnused /\ LimiterUnused

NextBackoff == CallCalculateBackoff

SpecBackoff == InitBackoff /\ [][NextBackoff]_vars

(***************************************************************************)
(* SpecLimiter: a SimpleRateLimiter, its callers and its owner.            *)
(***************************************************************************)
InitLimiter ==
  /\ NewQueue /\ FetcherUnused /\ BackoffUnused /\ NewTracker /\ CrawlUnused
  /\ RedirectsUnused /\ NormalizeUnused /\ FilterUnused /\ DetectUnused
  /\ InitLimiterArgs

NextLimiter ==
  \/ CallNewSimpleRateLimiter
  \/ TimerFires
  \/ Replenish
  \/ CallStop
  \/ \E c \in Callers : CallWait(c)
  \/ \E c \in Callers : CancelWait(c)
  \/ \E c \in Callers : WaitReceives(c)
  \/ \E c \in Callers : WaitDone(c)

SpecLimiter == InitLimiter /\ [][NextLimiter]_vars

\* The timer fires while it runs, and the goroutine and the callers of Wait
\* are scheduled. Nothing obliges the owner to call Stop or to cancel.
SpecLimiterFair ==
  /\ SpecLimiter
  /\ WF_vars(CallNewSimpleRateLimiter)
  /\ WF_vars(TimerFires)
  /\ WF_vars(Replenish)
  /\ \A c \in Callers : WF_vars(WaitReceives(c) \/ WaitDone(c))

(***************************************************************************)
(* SpecFetch: one call of Fetch.                                           *)
(***************************************************************************)
InitFetch == NewQueue /\ NewFetcher /\ BackoffUnused /\ NewTracker /\ CrawlUnused /\ RedirectsUnused /\ NormalizeUnused /\ FilterUnused /\ DetectUnused /\ LimiterUnused

NextFetch ==
  \/ FetchCall
  \/ BackoffElapsed
  \/ BackoffCancelled
  \/ WaitToken
  \/ WaitCancelled
  \/ Send
  \/ Receive
  \/ Check
  \/ Cancel
  \/ Tick

SpecFetch == InitFetch /\ [][NextFetch]_vars

\* Fetch takes its steps, every sleep ends, every request is answered, and
\* the limiter's ticker runs, so that Wait returns.
SpecFetchFair ==
  /\ SpecFetch
  /\ WF_vars(FetchCall)
  /\ WF_vars(BackoffElapsed)
  /\ WF_vars(WaitToken)
  /\ WF_vars(Send)
  /\ WF_vars(Receive)
  /\ WF_vars(Check)
  /\ WF_vars(Tick)

(***************************************************************************)
(* SpecQueue: NThreads threads, each calling Add and Pop in any order.     *)
(***************************************************************************)
InitQueue == NewQueue /\ FetcherUnused /\ BackoffUnused /\ NewTracker /\ CrawlUnused /\ RedirectsUnused /\ NormalizeUnused /\ FilterUnused /\ DetectUnused /\ LimiterUnused

NextQueue ==
  \E t \in Threads :
    \/ \E u \in URLs, rt \in QueueTypes : CallAdd(t, u, rt)
    \/ AddLock(t)
    \/ AddCheck(t)
    \/ AddPush(t)
    \/ AddReturn(t)
    \/ CallPop(t)
    \/ PopLock(t)
    \/ PopBody(t)
    \/ PopReturn(t)

SpecQueue == InitQueue /\ [][NextQueue]_vars

(***************************************************************************)
(* SpecHeap: thread 1 alone, adding up to MaxHeapURL URLs of differing     *)
(* weights in any order and popping at any time.                           *)
(***************************************************************************)
NextHeap ==
  \/ \E u \in HeapURLs : CallAdd(1, u, HeapTypeOf(u))
  \/ AddLock(1)
  \/ AddCheck(1)
  \/ AddPush(1)
  \/ AddReturn(1)
  \/ CallPop(1)
  \/ PopLock(1)
  \/ PopBody(1)
  \/ PopReturn(1)

SpecHeap == InitQueue /\ [][NextHeap]_vars

(***************************************************************************)
(* SpecWeights: thread 1 alone, adding one URL of each resource type in    *)
(* any order and popping at any time.                                      *)
(***************************************************************************)
NextWeights ==
  \/ \E u \in TypedURLs : CallAdd(1, u, TypeOfURL(u))
  \/ AddLock(1)
  \/ AddCheck(1)
  \/ AddPush(1)
  \/ AddReturn(1)
  \/ CallPop(1)
  \/ PopLock(1)
  \/ PopBody(1)
  \/ PopReturn(1)

SpecWeights == InitQueue /\ [][NextWeights]_vars

(***************************************************************************)
(* Claims about the Queue.                                                 *)
(***************************************************************************)
InAddRet(t) == th[t].pc = "add_ret"
InPopRet(t) == th[t].pc = "pop_ret"
Queued(u) == \E i \in 1..Len(pq) : pq[i].URL = u

\* C1: an Add returns true, and enqueues exactly one item, iff its URL was
\* never passed to an earlier Add; every other Add returns false and
\* enqueues nothing, also after the URL's item has been popped.
C1_AddAdmitsOnce ==
  \A t \in Threads :
    InAddRet(t) =>
      /\ th[t].ret = ~th[t].prior
      /\ th[t].delta = (IF th[t].ret THEN 1 ELSE 0)

\* An Add of a URL that was admitted and popped has returned false.
C1_Witness ==
  \E t \in Threads :
    /\ InAddRet(t)
    /\ ~th[t].ret
    /\ At(popCount, th[t].url, 0) = 1
    /\ ~Queued(th[t].url)

\* C2: when all callers are inside Add with the same URL at once, and the
\* URL was new to the queue when the first of them checked it, exactly one
\* call returns true, the others return false and the queue grows by one.
C2_ConcurrentAddOnce ==
  \A u \in URLs :
    ( /\ \A t \in Threads : InAddRet(t) /\ th[t].url = u
      /\ \E t \in Threads : ~th[t].prior )
    => /\ Cardinality({t \in Threads : th[t].ret}) = 1
       /\ Cardinality({t \in Threads : ~th[t].ret}) = NThreads - 1
       /\ Total([t \in Threads |-> th[t].delta]) = 1

\* Every thread holds the result of an Add of one URL that was new.
C2_Witness ==
  \E u \in URLs :
    /\ \A t \in Threads : InAddRet(t) /\ th[t].url = u
    /\ \E t \in Threads : ~th[t].prior
    /\ \E t \in Threads : ~th[t].ret

\* C3: a URL is popped no more often than it was admitted, so each admitted
\* item goes to at most one Pop and only admitted items are popped; when
\* the queue is empty the successful Pops are as many as the Adds that
\* returned true; a popped item has the type its admitting Add was given.
C3_PopOncePerAdmission ==
  /\ \A u \in DOMAIN popCount : popCount[u] <= At(addTrue, u, 0)
  /\ Len(pq) = 0 => Total(popCount) = Total(addTrue)
  /\ \A t \in Threads :
       (InPopRet(t) /\ th[t].ok) =>
         /\ At(addTrue, th[t].item.URL, 0) >= 1
         /\ th[t].item.Type = th[t].given

\* The queue is empty again after every URL was admitted and popped, the
\* last Pop's result still in hand.
C3_Witness ==
  /\ Len(pq) = 0
  /\ Total(popCount) = MaxURL
  /\ \E t \in Threads : InPopRet(t) /\ th[t].ok

\* C4: a Pop returns an item at least as heavy as every item left in the
\* queue; the weights popped with no Add in between never increase, and
\* fall strictly when they are all different.
NonIncreasing(w) == \A i \in 1..(Len(w) - 1) : w[i] >= w[i + 1]
Descending(w) == \A i \in 1..(Len(w) - 1) : w[i] > w[i + 1]
Distinct(w) == \A i, j \in 1..Len(w) : i # j => w[i] # w[j]

C4_PopHeaviestFirst ==
  /\ (InPopRet(1) /\ th[1].ok) =>
       \A i \in 1..Len(pq) : Weight(th[1].item) >= Weight(pq[i])
  /\ NonIncreasing(drain)
  /\ Distinct(drain) => Descending(drain)

\* Five items of weights 10, 25, 50, 75, 100 and a sixth were added and all
\* popped in a row.
C4_Witness ==
  /\ Len(pq) = 0
  /\ Len(drain) >= 6
  /\ {10, 25, 50, 75, 100} \subseteq {drain[i] : i \in 1..Len(drain)}

\* C25: the weights of the seven resource types fall strictly in the order
\* HTML, CSS, JS, Image, Font, Other, Unknown and are all positive, and a
\* Pop never returns an item while an item of a type earlier in that order
\* is in the queue.
TypeRanking == <<"HTML", "CSS", "JS", "Image", "Font", "Other", "Unknown">>
Rank(rt) == CHOOSE i \in 1..Len(TypeRanking) : TypeRanking[i] = rt

C25_WeightOrdersTypes ==
  /\ \A i, j \in 1..Len(TypeRanking) :
       i < j => GetWeight(TypeRanking[i]) > GetWeight(TypeRanking[j])
  /\ \A rt \in ResourceTypes : GetWeight(rt) > 0
  /\ {TypeRanking[i] : i \in 1..Len(TypeRanking)} = ResourceTypes
  /\ (InPopRet(1) /\ th[1].ok) =>
       \A i \in 1..Len(pq) : Rank(pq[i].Type) >= Rank(th[1].item.Type)

\* One item of each type was added; HTML, CSS, JS, Image and Font have
\* been popped in a row, Other and Unknown are still queued.
C25_Witness ==
  /\ InPopRet(1) /\ th[1].ok /\ th[1].item.Type = "Font"
  /\ drain = <<100, 75, 50, 25, 20>>
  /\ {pq[i].Type : i \in 1..Len(pq)} = {"Other", "Unknown"}

\* C35: the length of the queue is the number of Adds that returned true
\* less the number of Pops that returned an item; IsEmpty is true iff Len
\* is 0; a Pop on an empty queue returns (nil, false) and leaves the heap
\* and the admission set as they were, and only such a Pop returns false.
EmptyPop(t) == th[t].pc = "pop_body" /\ th'[t].pc = "pop_ret" /\ Len(pq) = 0

C35_LenCountsAddsLessPops ==
  /\ [](QueueLen = Total(addTrue) - Total(popCount))
  /\ [](IsEmpty <=> QueueLen = 0)
  /\ [][\A t \in Threads :
          /\ EmptyPop(t) => (~th'[t].ok /\ pq' = pq /\ seen' = seen)
          /\ (th[t].pc = "pop_body" /\ th'[t].pc = "pop_ret" /\ ~th'[t].ok)
               => QueueLen = 0]_vars

\* Every URL was admitted and popped, and a further Pop found the queue
\* empty.
C35_Witness ==
  /\ Total(addTrue) = MaxURL
  /\ Total(popCount) = MaxURL
  /\ seen = URLs
  /\ \E t \in Threads : InPopRet(t) /\ ~th[t].ok

\* C36: an Add that returns false leaves the length, the heap and the
\* admission set as they were; every queued item keeps the type given to
\* the Add that admitted it, and that is the type Pop returns.
RefusedAdd(t) == th[t].pc = "add_check" /\ th'[t].pc = "add_ret"

C36_RefusedAddChangesNothing ==
  /\ [](\A t \in Threads : (InAddRet(t) /\ ~th[t].ret) => th[t].delta = 0)
  /\ [][\A t \in Threads :
          RefusedAdd(t) => (~th'[t].ret /\ pq' = pq /\ seen' = seen
                            /\ admitted' = admitted)]_vars
  /\ [](\A i \in 1..Len(pq) : pq[i].Type = At(admitted, pq[i].URL, NoType))
  /\ [](\A t \in Threads :
          (InPopRet(t) /\ th[t].ok) => th[t].item.Type = th[t].given)

\* A URL queued with one type was added again with another type, the Add
\* returned false, and the item is still queued with the first type.
C36_Witness ==
  \E t \in Threads :
    /\ InAddRet(t)
    /\ ~th[t].ret
    /\ \E i \in 1..Len(pq) :
         /\ pq[i].URL = th[t].url
         /\ pq[i].Type # th[t].type
         /\ pq[i].Type = At(admitted, th[t].url, NoType)

(***************************************************************************)
(* Claims about Fetch.                                                     *)
(***************************************************************************)
Done == pc = "done"
Last(h) == h[Len(h)]
Returned(resp, err) == result = [resp |-> resp, err |-> err]

\* C5: when every attempt ended in a 5xx response and the signal was never
\* raised, Fetch has sent MaxRetries + 1 requests and returns the
\* retries-exhausted error around the last attempt's error.
C5_ExhaustedAfterAllAttempts ==
  (Done /\ ~ctxDone /\ hist # <<>> /\ \A i \in DOMAIN hist : Is5xx(hist[i]))
    => /\ requests = config.MaxRetries + 1
       /\ Len(hist) = config.MaxRetries + 1
       /\ Returned(NilResp, RetriesExhausted(config.MaxRetries, ErrOf(Last(hist))))

\* Three attempts, 500 first and 503 last, and Fetch has returned.
C5_Witness ==
  /\ Done /\ ~ctxDone
  /\ Len(hist) = 3
  /\ \A i \in DOMAIN hist : Is5xx(hist[i])
  /\ hist[1].status = 500 /\ hist[3].status = 503

\* An attempt that received a 4xx response is the last one: no sleep and
\* no request follow it, and a 4xx on the first attempt leaves the server
\* with one request.
NoRetryAfter4xx(i) ==
  /\ i = Len(hist)
  /\ pc \in {"check", "done"}
  /\ sleeps = i - 1
  /\ requests = i

\* C6 as claimed: after a 4xx response Fetch returns the client error, with
\* no sleep and no request in between.
C6_Original ==
  \A i \in DOMAIN hist :
    Is4xx(hist[i]) =>
      /\ NoRetryAfter4xx(i)
      /\ Done => Returned(NilResp,
                          ClientError(hist[i].status, ErrOf(hist[i])))

\* C6, amended: after a 4xx response Fetch returns at once, with no sleep
\* and no request in between: the client error, or the cancellation error
\* when the signal was raised before the response was examined.
C6_ClientErrorEndsFetch ==
  \A i \in DOMAIN hist :
    Is4xx(hist[i]) =>
      /\ NoRetryAfter4xx(i)
      /\ Done => Returned(NilResp,
                          IF ctxDone THEN Canceled
                          ELSE ClientError(hist[i].status, ErrOf(hist[i])))

\* A 404 on the first attempt, retries to spare, and the client error.
C6_Witness ==
  /\ Done /\ ~ctxDone
  /\ config.MaxRetries = MaxRetriesCap
  /\ hist = <<[kind |-> "http", status |-> 404]>>
  /\ requests = 1
  /\ result.err.kind = "client error"

\* Once the signal is raised the server receives no further request.
NoRequestAfterCancel == ctxDone => requests = reqAtCancel

C8_CancelDuringBackoff ==
  cancelAt = "backoff" =>
    /\ requests = reqAtCancel
    /\ pc = "backoff" => ENABLED BackoffCancelled
    /\ pc # "flight"
    /\ Done => Returned(NilResp, Canceled)

\* Fetch has returned after the signal was raised in the sleep before the
\* last retry it was allowed.
C8_Witness ==
  /\ Done
  /\ cancelAt = "backoff"
  /\ attempt = config.MaxRetries
  /\ requests = config.MaxRetries

\* C9: with a limiter, Fetch has taken one token for the current attempt
\* and each one before it by the time it sends, so the requests never
\* outnumber the tokens taken; a Wait that fails ends Fetch with its error.
C9_TokenBeforeEveryAttempt ==
  config.RateLimiter =>
    /\ requests <= acquired
    /\ pc \in {"send", "flight", "check"} => acquired = attempt + 1
    /\ waitErr # NoErr => (Done /\ Returned(NilResp, waitErr))

\* The second attempt is in flight on the second token.
C9_Witness ==
  /\ config.RateLimiter
  /\ pc = "flight"
  /\ attempt = 1
  /\ acquired = 2
  /\ requests = 2

\* C10: when k retryable failures (k <= MaxRetries) are followed by a 2xx
\* response, Fetch returns that response and no error after k + 1
\* requests, and sends nothing afterwards; it gives up only after
\* MaxRetries + 1 attempts.
C10_SuccessAfterRetries ==
  /\ (Done /\ hist # <<>> /\ Last(hist).kind = "ok") =>
       /\ \A i \in 1..(Len(hist) - 1) : Retryable(hist[i])
       /\ Len(hist) - 1 <= config.MaxRetries
       /\ requests = Len(hist)
       /\ Returned(RespOf(Last(hist)), NoErr)
       /\ ~result.resp.nil /\ result.resp.StatusCode = 200 /\ result.resp.Body
  /\ (Done /\ result.err.kind = "failed after retries") =>
       Len(hist) = config.MaxRetries + 1

\* MaxRetries failures of different kinds, then a 200, and Fetch returned.
C10_Witness ==
  /\ Done
  /\ config.MaxRetries = MaxRetriesCap
  /\ Len(hist) = config.MaxRetries + 1
  /\ Last(hist).kind = "ok"
  /\ hist[1].kind = "transport"
  /\ result.err = NoErr

Min(a, b) == IF a < b THEN a ELSE b

\* C27: the first attempt of a Fetch call has no backoff sleep before it;
\* the k-th retry has before it, in this order, a sleep of
\* min(InitialDelay * 2^(k-1), MaxDelay), the limiter's token wait when
\* there is a limiter, and the request; so a request follows the previous
\* one only after a sleep.
Delay(k) == Min(config.InitialDelay * 2^(k - 1), config.MaxDelay)
SleepsUpTo(i) == Cardinality({j \in 1..i : trace[j].e = "sleep"})
Attempting == pc \in {"wait", "send", "flight", "check"}

C28_FetchTerminates ==
  /\ <>Done
  /\ [](Done =>
         /\ Len(hist) <= config.MaxRetries + 1
         /\ requests <= config.MaxRetries + 1
         /\ result.err.kind \in {"nil", "client error", "failed after retries",
                                 "context canceled"}
         /\ (result.resp # NilResp) <=> (result.err = NoErr)
         /\ result.resp # NilResp =>
              /\ result.resp.StatusCode >= 200
              /\ result.resp.StatusCode < 300)

\* Fetch returned the response of its last allowed attempt.
C28_Witness ==
  /\ Done
  /\ config.MaxRetries = MaxRetriesCap
  /\ Len(hist) = MaxRetriesCap + 1
  /\ result.err = NoErr
  /\ result.resp.StatusCode = 200

\* C29: an attempt is followed by another one only if it ended in a 5xx
\* response, a transport failure or a body-read failure.
Transient(o) == Is5xx(o) \/ o.kind \in {"transport", "body"}

C29_RetryOnlyTransient ==
  \A i \in 1..(Len(hist) - 1) : Transient(hist[i])

\* C30: with no cancellation, an attempt whose body could not be read is
\* followed by a sleep and another attempt whenever attempts remain,
\* whatever the status of its response.
C30_BodyFailureRetried ==
  (Done /\ ~ctxDone) =>
    \A i \in 1..Len(hist) :
      (hist[i].kind = "body" /\ i <= config.MaxRetries) =>
        (Len(hist) > i /\ sleeps >= i)

\* What holds of a body-read failure: it is retried when the status of the
\* response is not 4xx.
BodyFailureRetriedUnless4xx ==
  (Done /\ ~ctxDone) =>
    \A i \in 1..Len(hist) :
      (hist[i].kind = "body" /\ ~Is4xx(hist[i]) /\ i <= config.MaxRetries) =>
        (Len(hist) > i /\ sleeps >= i)

(***************************************************************************)
(* Claims about SimpleRateLimiter.                                         *)
(***************************************************************************)
\* In this step the goroutine received a tick.
TickReceived == rl.C /\ ~rl'.C /\ rl'.ticker = rl.ticker

\* The callers whose Wait returned nil in this step.
NilReturns ==
  {c \in Callers : wt[c].pc = "select" /\ wt'[c].pc = "returned"
                   /\ wt'[c].err = "nil"}

\* C31: the bucket starts with `requests` tokens and always holds between 0
\* and `requests`; a tick received on a full bucket changes nothing, a tick
\* received otherwise adds one token, each Wait that returns nil removes
\* one, and nothing else changes the bucket.
C31_BucketBounded ==
  /\ [](rl.ticker # "none" => rl.tokens \in 0..rl.requests)
  /\ [][rl.ticker = "none" /\ rl'.ticker # "none" =>
          rl'.tokens = rl'.requests]_vars
  /\ [][rl.ticker # "none" =>
          rl'.tokens = rl.tokens
                       + (IF TickReceived /\ rl.tokens < rl.requests
                            THEN 1 ELSE 0)
                       - Cardinality(NilReturns)]_vars

\* A Wait took a token from a bucket of MaxRequests tokens, and ticks have
\* filled the bucket again.
C31_Witness ==
  /\ rl.requests = MaxRequests
  /\ rl.tokens = rl.requests
  /\ \E c \in Callers : wt[c].pc = "returned" /\ wt[c].err = "nil"
                        /\ wt[c].tokensAtCall = 0

\* C32: a Wait called with the signal already raised returns the
\* cancellation error, and so removes no token, whatever the bucket holds.
C32_WaitAfterSignalFails ==
  \A c \in Callers :
    (wt[c].pc = "returned" /\ wt[c].doneAtCall) =>
      wt[c].err = "context canceled"

\* What holds of Wait: one that is blocked with the signal raised returns.
BlockedWaitReturns ==
  \A c \in Callers :
    (wt[c].pc = "select" /\ wt[c].done) ~> (wt[c].pc = "returned")

\* C33: once Stop has been called the goroutine started by
\* NewSimpleRateLimiter terminates.
C33_StopEndsGoroutine ==
  (rl.ticker = "stopped") ~> (rl.goroutine = "exited")

\* After Stop no token is added to the bucket.
NoTokenAfterStop ==
  [][rl.ticker = "stopped" => rl'.tokens <= rl.tokens]_vars

\* After Stop at most the one tick sent before it is turned into a token.
OneStaleTickAtMost ==
  [][rl.ticker = "stopped" /\ rl'.tokens > rl.tokens =>
       rl.stale /\ ~rl'.stale /\ rl'.tokens = rl.tokens + 1]_vars

(***************************************************************************)
(* Claims about calculateBackoff.                                          *)
(***************************************************************************)

\* C11: calculateBackoff(k) is min(InitialDelay * 2^(k-1), MaxDelay): not
\* negative, not above MaxDelay, and not above what k + 1 gives.
C11_BackoffIsCappedDoubling ==
  backoff.attempt >= 1 =>
    /\ backoff.delay =
         Min(Times2Pow(backoff.InitialDelay, backoff.attempt - 1), backoff.MaxDelay)
    /\ backoff.delay >= 0
    /\ backoff.delay <= backoff.MaxDelay
    /\ \A d \in calculateBackoff(backoff.InitialDelay, backoff.MaxDelay,
                                 backoff.attempt + 1) : backoff.delay <= d

(***************************************************************************)
(* Claims about the Tracker.                                               *)
(***************************************************************************)
\* What the log says of u: the status of the last Swap for it, if any.
RECURSIVE LastMark(_, _)
LastMark(log, u) ==
  IF log = <<>> THEN <<0, FALSE>>
  ELSE IF log[Len(log)][1] = u THEN <<log[Len(log)][2], TRUE>>
  ELSE LastMark(SubSeq(log, 1, Len(log) - 1), u)

\* C12: once every MarkVisited call has returned, VisitedCount is the
\* number of distinct URLs the calls were made with.
C12_CountsDistinctURLs ==
  (\A t \in Threads : ~InMarkVisited(t)) => VisitedCount = Cardinality(called)

\* MaxMarks calls have returned, the first two for one URL with different
\* statuses, and another URL was marked as well.
C12_Witness ==
  /\ \A t \in Threads : ~InMarkVisited(t)
  /\ Len(marklog) = MaxMarks
  /\ marklog[1][1] = marklog[2][1]
  /\ marklog[1][2] # marklog[2][2]
  /\ Cardinality(called) = 2

\* C13: GetStatus(u) is the status of the most recent mark of u and true,
\* or (0, false) when u was never marked, whatever was marked for other
\* URLs; IsVisited(u) holds exactly when u was marked, from then on.
C13_LastWriteWins ==
  \A u \in URLs :
    /\ GetStatus(u) = LastMark(marklog, u)
    /\ IsVisited(u) <=> (\E i \in DOMAIN marklog : marklog[i][1] = u)

\* One URL marked 200 then 404 with another URL marked in between, and a
\* third URL or the rest never marked.
C13_Witness ==
  /\ Len(marklog) = 3
  /\ marklog[1][1] = marklog[3][1]
  /\ marklog[2][1] # marklog[1][1]
  /\ marklog[1][2] = 200 /\ marklog[3][2] = 404
  /\ GetStatus(marklog[1][1]) = <<404, TRUE>>
  /\ GetStatus(marklog[2][1]) = <<marklog[2][2], TRUE>>

\* The URLs for which IsVisited returns true.
VisitedURLs == {u \in URLs : IsVisited(u)}

\* The MarkVisited calls that have stored a new URL and not yet counted it.
Uncounted == {t \in Threads : tth[t].pc = "add"}

\* C34, as stated: in every reachable state VisitedCount is the number of
\* URLs for which IsVisited returns true.
C34_CountEqualsVisited == VisitedCount = Cardinality(VisitedURLs)

\* C34, amended: VisitedCount falls short of the number of visited URLs by
\* exactly the number of MarkVisited calls between their Swap of a new URL
\* and their increment, and equals it when there is no such call.
C34_CountLagsByUncounted ==
  VisitedCount = Cardinality(VisitedURLs) - Cardinality(Uncounted)

\* One URL is visited and counted, a second is visited and not yet counted.
C34_Witness ==
  /\ Cardinality(VisitedURLs) = 2
  /\ VisitedCount = 1
  /\ Cardinality(Uncounted) = 1

(***************************************************************************)
(* Claims about the worker pool.                                           *)
(***************************************************************************)
Returned_ == run = "returned"
Exited(w) == wk[w].pc = "exited"

\* C14: no URL has a fetch started for it twice, however it is
\* rediscovered.
C14_FetchedAtMostOnce ==
  \A i, j \in DOMAIN fetchlog : fetchlog[i] = fetchlog[j] => i = j

\* One worker has a fetch in flight for a URL that another worker found
\* again on its page and has already handed to Add; a third URL is queued
\* or done.
C14_Witness ==
  \E w1, w2 \in Threads :
    /\ wk[w1].pc = "enqueue"
    /\ wk[w2].pc = "fetch"
    /\ wk[w2].url \in Links(wk[w1].url)
    /\ wk[w2].url \notin wk[w1].pending
    /\ Root \in DOMAIN visited

\* C15: absent cancellation, run has returned only with the Frontier empty,
\* the in-flight counter at zero and no worker holding an item; the counter
\* is the number of workers holding one.
C15_QuiescenceOnly ==
  /\ inflight = Cardinality({w \in Threads : Holding(w)})
  /\ (Returned_ /\ ~cancelled) =>
       /\ Len(pq) = 0
       /\ inflight = 0
       /\ \A w \in Threads : ~Holding(w)

\* The run returned by quiescence after every page was fetched, the root
\* first, with the Frontier empty while the root was in flight.
C15_Witness ==
  /\ Returned_ /\ ~cancelled
  /\ Len(fetchlog) = MaxPage

AllDiscoveredVisited ==
  \A u \in discovered :
    /\ IsVisited(u)
    /\ GetStatus(u)[1] \in {200, SentinelFailure}

\* C16: absent cancellation the run returns, and then every in-scope URL
\* discovered is in the Ledger with a success or the sentinel status.
C16_TerminatesComplete ==
  ([]~cancelled) => <>(Returned_ /\ AllDiscoveredVisited /\ discovered # {})

\* The run returned with every page discovered, some fetched and some
\* failed.
C16_Witness ==
  /\ Returned_ /\ ~cancelled
  /\ discovered = Pages
  /\ failed # {}
  /\ \E u \in Pages : GetStatus(u) = <<200, TRUE>>

\* What is left to do after the signal: a worker in a fetch has two steps
\* to its exit, any other worker one, and run one.
Remaining ==
  Cardinality({w \in Threads : ~Exited(w)})
  + Cardinality({w \in Threads : wk[w].pc = "fetch"})
  + (IF Returned_ THEN 0 ELSE 1)

\* C17: once the signal is raised nothing is popped from the Frontier and
\* no fetch is started, every fetch in flight can return on it, each step
\* brings the return of run nearer, and run returns.
C17_CancelStopsRun ==
  /\ [][cancelled => /\ pq' = pq
                     /\ fetchlog' = fetchlog
                     /\ Remaining' < Remaining]_vars
  /\ [](cancelled => \A w \in Threads :
                       wk[w].pc = "fetch" => ENABLED FetchCancelled(w))
  /\ (cancelled ~> Returned_)

\* The signal was raised with a fetch in flight and items queued, and run
\* has returned.
C17_Witness ==
  /\ Returned_ /\ cancelled
  /\ Len(pq) > 0
  /\ \E w \in Threads : wk[w].pc = "exited" /\ Len(fetchlog) >= 2

\* C18: a URL whose fetch failed is in the Ledger with the sentinel status
\* and counts as visited, and run returns only by quiescence or after the
\* signal.
C18_FailureIsRecorded ==
  /\ \A u \in failed : IsVisited(u) /\ GetStatus(u) = <<SentinelFailure, TRUE>>
  /\ Returned_ => (cancelled \/ (Len(pq) = 0 /\ inflight = 0))
  /\ (failed # {} /\ ~cancelled /\ Len(pq) > 0) => run = "running"

\* A fetch failed, and a page queued behind it was fetched afterwards.
C18_Witness ==
  \E i \in DOMAIN fetchlog :
    /\ i < Len(fetchlog)
    /\ fetchlog[i] \in failed
    /\ GetStatus(fetchlog[i + 1]) = <<200, TRUE>>

(***************************************************************************)
(* Claims about redirects.                                                 *)
(***************************************************************************)
\* C19: Fetch follows a chain of up to 10 redirects to its final response;
\* for a longer chain it fails at once with an error that is not the
\* retries-exhausted error.
C19_RedirectCap ==
  Done =>
    IF hops <= MaxRedirects
      THEN /\ Returned(RespOf([kind |-> "ok", status |-> 200]), NoErr)
           /\ requests = hops + 1
      ELSE /\ result.resp = NilResp
           /\ result.err.kind \notin {"nil", "failed after retries"}
           /\ sleeps = 0

(***************************************************************************)
(* Claims about Normalize.                                                 *)
(***************************************************************************)
\* C20: when Normalize succeeds with n, Normalize(n, "") succeeds and
\* returns n.
C20_NormalizeIdempotent ==
  norm.calls = 2 => (norm.again.ok /\ norm.again.s = norm.n.s)

\* The text before the first "#", and whether it starts with a scheme.
BeforeFragment(t) ==
  IF Index(t, "#") = 0 THEN t ELSE SubSeq(t, 1, Index(t, "#") - 1)
HasScheme(t) == Len(t) >= 2 /\ t[1] \in SchemeTokens /\ t[2] = ":"
HasQuery(t) == Index(BeforeFragment(t), "?") # 0

\* The fragment text of the resolved input: that of the base when the
\* reference has no scheme, host, path, query or fragment, that of the
\* input otherwise.
ResolvedFragmentText(rawURL, baseURL) ==
  LET ref == Parse(rawURL)
  IN  IF /\ baseURL # <<>>
         /\ ~HasScheme(rawURL)
         /\ ref.Host = <<>> /\ ref.Path = <<>>
         /\ ~HasQuery(rawURL)
         /\ FragmentText(rawURL) = <<>>
        THEN FragmentText(baseURL)
        ELSE FragmentText(rawURL)

NormalizeReturned == norm.calls >= 1 /\ norm.n.ok

\* C21: a result of Normalize has no query component, also for an input
\* with a bare "?", and its fragment is the text of the resolved input's
\* fragment, unchanged.
C21_QueryDroppedFragmentVerbatim ==
  NormalizeReturned =>
    /\ ~HasQuery(norm.n.s)
    /\ FragmentText(norm.n.s) = ResolvedFragmentText(norm.rawURL, norm.baseURL)

\* What does hold of the fragment: it decodes to the same characters, and
\* its text is unchanged when it had no character that needs escaping.
FragmentKeptUpToEscaping ==
  NormalizeReturned =>
    LET was == ResolvedFragmentText(norm.rawURL, norm.baseURL)
        is == FragmentText(norm.n.s)
    IN  /\ ~HasQuery(norm.n.s)
        /\ unescape(is) = unescape(was)
        /\ validEncoded(was) => is = was

\* C22: Normalize fails on an input that does not parse and on a relative
\* input with no base; a result is always absolute; the same pair of
\* arguments gives the same outcome again.
C22_FailsOrAbsolute ==
  norm.calls >= 1 =>
    /\ norm.rawURL \in Unparseable => ~norm.n.ok
    /\ (~HasScheme(norm.rawURL) /\ norm.baseURL = <<>>) => ~norm.n.ok
    /\ norm.n.ok => HasScheme(norm.n.s)
    /\ norm.n = Normalize(norm.rawURL, norm.baseURL)

C22_Witness ==
  /\ norm.calls = 1
  /\ norm.rawURL \in References /\ norm.rawURL # <<>>
  /\ norm.baseURL = <<>>
  /\ ~norm.n.ok

\* C23: the path of a result of Normalize does not end in "/" unless it is
\* exactly "/".
C23_NoTrailingSlash ==
  NormalizeReturned =>
    LET path == Parse(norm.n.s).Path
    IN  path = <<"/">> \/ ~HasSuffix(path, <<"/">>)

(***************************************************************************)
(* Claims about the Filter.                                                *)
(***************************************************************************)
Asked == filt.calls = 2 /\ ~ParseFails(filt.rootURL)
InWhitelist(h) == ToLower(h) \in {ToLower(d) : d \in filt.whitelistDomains}
SameHost(h, g) == ToLower(h) = ToLower(g)
InRootDirectory(p) == HasPrefix(p, RootPath(Parse(filt.rootURL).Path))

\* C24: IsAllowed(u) fails for a u that does not parse or is relative; for
\* any other u it returns true iff the host of u is the root's host and the
\* path of u starts with the root's directory, or the host of u is in the
\* whitelist (hosts compared without regard to case).
C24_IsAllowedIffInScope ==
  Asked =>
    IF filt.rawURL \in Unparseable \/ ~HasScheme(filt.rawURL)
      THEN filt.allowed.err
      ELSE LET u == Parse(filt.rawURL)
           IN  /\ ~filt.allowed.err
               /\ filt.allowed.ok <=>
                     \/ /\ SameHost(u.Host, Parse(filt.rootURL).Host)
                        /\ InRootDirectory(u.Path)
                     \/ InWhitelist(u.Host)

\* What IsAllowed computes: the whitelist is consulted only for a host
\* other than the root's.
WhitelistForOtherHostsOnly ==
  (Asked /\ ~filt.allowed.err) =>
    LET u == Parse(filt.rawURL)
    IN  filt.allowed.ok <=>
          IF SameHost(u.Host, Parse(filt.rootURL).Host)
            THEN InRootDirectory(u.Path)
            ELSE InWhitelist(u.Host)

\* C37: a Filter built from a root URL that does not parse answers false
\* or an error for every URL.
C37_BadRootRejectsAll ==
  (filt.calls = 2 /\ ParseFails(filt.rootURL)) =>
    (~filt.allowed.ok \/ filt.allowed.err)

\* What holds of such a Filter: it allows the absolute URLs with an empty
\* host and no others.
BadRootAllowsHostlessOnly ==
  (filt.calls = 2 /\ ParseFails(filt.rootURL) /\ ~filt.allowed.err) =>
    (filt.allowed.ok <=> Parse(filt.rawURL).Host = <<>>)

\* C38: the filter built from a root URL that normalizes allows the
\* normalized root URL.
C38_RootAllowed ==
  filt.calls = 3 => (filt.allowed.ok /\ ~filt.allowed.err)

\* What holds of the root: it is allowed iff its path, after normalizing,
\* starts with the cleaned directory of its path as given.
RootAllowedIffPathHasCleanDir ==
  filt.calls = 3 =>
    /\ ~filt.allowed.err
    /\ filt.allowed.ok <=> InRootDirectory(Parse(filt.rawURL).Path)

\* The path p is the directory d or lies below it.
IsOrBelow(p, d) ==
  \/ p = d
  \/ HasPrefix(p, IF d = <<"/">> THEN d ELSE d \o <<"/">>)

\* C39: a URL on the root's host, that host not being whitelisted, is
\* allowed only if its path is the root's directory or lies below it.
C39_SameHostConfined ==
  (Asked /\ ~filt.allowed.err) =>
    LET u == Parse(filt.rawURL)
    IN  (/\ SameHost(u.Host, Parse(filt.rootURL).Host)
         /\ ~InWhitelist(u.Host)
         /\ filt.allowed.ok)
          => IsOrBelow(u.Path, RootPath(Parse(filt.rootURL).Path))

(***************************************************************************)
(* Claims about DetectResourceType.                                        *)
(***************************************************************************)
\* The kind the content type of the call names, and the extension of the
\* URL of the call, lowercased: what follows the last "." of the file name.
Names == (CHOOSE c \in ContentTypes : c.text = det.contentType).names
FileName ==
  LET path == BeforeFragment(SplitFirst(det.rawURL, "?"))
  IN  From(path, LastIndex(path, "/") + 1)
Extension ==
  IF LastIndex(FileName, ".") = 0 THEN "" ELSE ToLower(FileName)[Len(FileName)]
FontExtensions == {"woff", "woff2", "ttf", "otf", "eot"}
ExtensionTable ==
  [e \in {ToLower(<<x>>)[1] : x \in ExtensionNames} |->
     CASE e \in {"html", "htm"} -> "HTML"
       [] e = "css" -> "CSS"
       [] e \in {"js", "mjs"} -> "JS"
       [] e \in {"png", "jpg", "jpeg", "gif", "svg", "webp", "ico", "bmp"} -> "Image"
       [] e \in FontExtensions -> "Font"
       [] e \in {"pdf", "zip", "tar", "gz"} -> "Other"
       [] OTHER -> "Unknown"]

C40_OneClassification ==
  det.calls = 3 => (det.grt = det.rt /\ det.frt = det.rt)

\* What holds of the three: GetResourceType is urlutil's DetectResourceType,
\* and fetcher's agrees with them when the content type names a kind, or
\* when the URL parses, has no query or fragment, and its last element has
\* an extension.
ClassificationsAgreeSometimes ==
  det.calls = 3 =>
    /\ det.grt = det.rt
    /\ Names # "none" => det.frt = det.rt
    /\ (/\ det.rawURL \notin Unparseable
        /\ Index(det.rawURL, "?") = 0 /\ Index(det.rawURL, "#") = 0
        /\ Ext(Parse(det.rawURL).Path) # <<>>) => det.frt = det.rt

====
